---- MODULE Spec2Model ----
(***************************************************************************)
(* Model of the growthcraft_api server (src/logger.js holds both the       *)
(* logger and the express server, src/stripe.js the billing handlers).     *)
(*                                                                         *)
(* Texts (provider replies, cleaned texts) are sequences of characters.    *)
(* A character is a one-element string; the backtick, which cannot be      *)
(* written inside a TLA+ string, is the token BT.                          *)
(***************************************************************************)
EXTENDS Integers, Sequences, FiniteSets, TLC

\* ------------------------------------------------------------------------
\* Bounds of the model
\* ------------------------------------------------------------------------
MaxGenLen == 5
MaxPosts == 2
MaxTime == 2
MaxStripe == 2

\* ------------------------------------------------------------------------
\* Characters
\* ------------------------------------------------------------------------
BT == "BT"
QT == "\""
BSL == "\\"
NL == "\n"

\* String.prototype.trim() white space occurring in the model's texts
TrimWs == {" ", "\n", "\r", "\t"}
\* JSON insignificant white space
JsonWs == {" ", "\n", "\r", "\t"}
\* the class [\x00-\x1F\x7F-\x9F] of the facts route, on the model's texts
ControlChars == {"\n", "\r", "\t"}
Digits == {"0", "1", "2", "3", "4", "5", "6", "7", "8", "9"}
HexDigits == Digits \cup {"a", "b", "c", "d", "e", "f", "A", "B", "C", "D", "E", "F"}

DigitVal(c) ==
  CASE c = "0" -> 0 [] c = "1" -> 1 [] c = "2" -> 2 [] c = "3" -> 3
    [] c = "4" -> 4 [] c = "5" -> 5 [] c = "6" -> 6 [] c = "7" -> 7
    [] c = "8" -> 8 [] c = "9" -> 9

\* ------------------------------------------------------------------------
\* String operations of the handlers
\* ------------------------------------------------------------------------
MatchAt(s, pat, i) ==
  /\ i + Len(pat) - 1 <= Len(s)
  /\ \A k \in 1..Len(pat) : s[i + k - 1] = pat[k]

\* index of the first occurrence of pat in s, 0 when there is none
IndexOf(s, pat) ==
  LET hits == {i \in 1..Len(s) : MatchAt(s, pat, i)}
  IN  IF hits = {} THEN 0 ELSE CHOOSE i \in hits : \A j \in hits : i <= j

\* s.replace(/pat/, rep): the first match only
ReplaceFirst(s, pat, rep) ==
  LET i == IndexOf(s, pat)
  IN  IF i = 0 THEN s
      ELSE SubSeq(s, 1, i - 1) \o rep \o SubSeq(s, i + Len(pat), Len(s))

\* s.replace(/pat/g, rep): every match, left to right, not overlapping
RECURSIVE ReplaceAll(_, _, _)
ReplaceAll(s, pat, rep) ==
  LET i == IndexOf(s, pat)
  IN  IF i = 0 THEN s
      ELSE SubSeq(s, 1, i - 1) \o rep
             \o ReplaceAll(SubSeq(s, i + Len(pat), Len(s)), pat, rep)

RECURSIVE TrimStart(_)
TrimStart(s) ==
  IF s # <<>> /\ Head(s) \in TrimWs THEN TrimStart(Tail(s)) ELSE s

RECURSIVE TrimEnd(_)
TrimEnd(s) ==
  IF s # <<>> /\ s[Len(s)] \in TrimWs THEN TrimEnd(SubSeq(s, 1, Len(s) - 1)) ELSE s

Trim(s) == TrimEnd(TrimStart(s))

FenceJson == <<BT, BT, BT, "j", "s", "o", "n", NL>>
Fence == <<BT, BT, BT>>

\* the cleaning with the second replace not global: only the first fence goes
StripFencesOnce(text) ==
  Trim(ReplaceFirst(ReplaceFirst(text, FenceJson, <<>>), Fence, <<>>))

\* text.replace(/```json\n/, '').replace(/```/g, '').trim()
StripFences(text) ==
  Trim(ReplaceAll(ReplaceFirst(text, FenceJson, <<>>), Fence, <<>>))

\* text.replace(/\$/g, 'USD ')
ReplaceDollar(text) == ReplaceAll(text, <<"$">>, <<"U", "S", "D", " ">>)

\* text.replace(/[\x00-\x1F\x7F-\x9F]/g, '')
RemoveControl(text) == SelectSeq(text, LAMBDA c : c \notin ControlChars)

\* the cleaning of the facts route
CleanFacts(text) == RemoveControl(ReplaceDollar(StripFences(text)))

\* ------------------------------------------------------------------------
\* JSON values and JSON.parse
\* A value is a record [t, v]; v is a sequence in every case:
\*   null -> <<>>, bool -> <<b>>, num -> <<n>>, str -> the characters,
\*   arr -> the elements, obj -> the members [k |-> characters, v |-> value]
\*   in insertion order, a repeated key keeping its first place and taking
\*   the last value.
\* Numbers are integers (no fraction, no exponent): the model's texts use
\* no other.
\* ------------------------------------------------------------------------
JNull == [t |-> "null", v |-> <<>>]
JBool(b) == [t |-> "bool", v |-> <<b>>]
JNum(n) == [t |-> "num", v |-> <<n>>]
JStr(cs) == [t |-> "str", v |-> cs]
JArr(es) == [t |-> "arr", v |-> es]
JObj(ms) == [t |-> "obj", v |-> ms]

ParseFail == [ok |-> FALSE, val |-> JNull, pos |-> 0]
ParseOk(val, pos) == [ok |-> TRUE, val |-> val, pos |-> pos]

\* JavaScript undefined, where a property read finds nothing
JUndef == [t |-> "undefined", v |-> <<>>]

\* property names
K_title == <<"t", "i", "t", "l", "e">>
K_keywords == <<"k", "e", "y", "w", "o", "r", "d", "s">>
K_sections == <<"s", "e", "c", "t", "i", "o", "n", "s">>
K_research_questions == <<"r", "e", "s", "e", "a", "r", "c", "h", "_", "q", "u", "e", "s", "t", "i", "o", "n", "s">>
K_facts == <<"f", "a", "c", "t", "s">>
K_Instagram == <<"I", "n", "s", "t", "a", "g", "r", "a", "m">>
K_Facebook == <<"F", "a", "c", "e", "b", "o", "o", "k">>
K_X == <<"X">>
K_LinkedIn == <<"L", "i", "n", "k", "e", "d", "I", "n">>
K_content == <<"c", "o", "n", "t", "e", "n", "t">>
K_hashtags == <<"h", "a", "s", "h", "t", "a", "g", "s">>
K_link == <<"l", "i", "n", "k">>
K_generated_at == <<"g", "e", "n", "e", "r", "a", "t", "e", "d", "_", "a", "t">>
K_drips == <<"d", "r", "i", "p", "s">>

\* the character of a \uXXXX escape; a code unit the model has no
\* character for is the token of its escape
UnicodeChar(h) ==
  CASE h = <<"0", "0", "2", "4">> -> "$"
    [] h = <<"0", "0", "2", "2">> -> QT
    [] h = <<"0", "0", "6", "0">> -> BT
    [] h = <<"0", "0", "2", "0">> -> " "
    [] h = <<"0", "0", "3", "1">> -> "1"
    [] OTHER -> "\\u" \o h[1] \o h[2] \o h[3] \o h[4]

RECURSIVE SkipWs(_, _)
SkipWs(s, i) ==
  IF i <= Len(s) /\ s[i] \in JsonWs THEN SkipWs(s, i + 1) ELSE i

\* the characters of a string, from the position after the opening quote
RECURSIVE ParseString(_, _, _)
ParseString(s, i, acc) ==
  IF i > Len(s) THEN ParseFail
  ELSE IF s[i] = QT THEN ParseOk(JStr(acc), i + 1)
  ELSE IF s[i] \in ControlChars THEN ParseFail
  ELSE IF s[i] = BSL THEN
    IF i + 1 > Len(s) THEN ParseFail
    ELSE IF s[i + 1] \in {QT, BSL, "/"}
      THEN ParseString(s, i + 2, Append(acc, s[i + 1]))
    ELSE IF s[i + 1] = "n" THEN ParseString(s, i + 2, Append(acc, "\n"))
    ELSE IF s[i + 1] = "t" THEN ParseString(s, i + 2, Append(acc, "\t"))
    ELSE IF s[i + 1] = "r" THEN ParseString(s, i + 2, Append(acc, "\r"))
    ELSE IF s[i + 1] = "b" THEN ParseString(s, i + 2, Append(acc, "\\b"))
    ELSE IF s[i + 1] = "f" THEN ParseString(s, i + 2, Append(acc, "\f"))
    ELSE IF s[i + 1] = "u" THEN
      IF i + 5 <= Len(s) /\ \A k \in 2..5 : s[i + k] \in HexDigits
      THEN ParseString(s, i + 6, Append(acc, UnicodeChar(SubSeq(s, i + 2, i + 5))))
      ELSE ParseFail
    ELSE ParseFail
  ELSE ParseString(s, i + 1, Append(acc, s[i]))

RECURSIVE ParseDigits(_, _, _)
ParseDigits(s, i, n) ==
  IF i <= Len(s) /\ s[i] \in Digits
  THEN ParseDigits(s, i + 1, 10 * n + DigitVal(s[i]))
  ELSE ParseOk(JNum(n), i)

\* -?(0|[1-9][0-9]*)
ParseNumber(s, i) ==
  LET neg == s[i] = "-"
      j == IF neg THEN i + 1 ELSE i
  IN  IF j > Len(s) \/ s[j] \notin Digits THEN ParseFail
      ELSE LET r == IF s[j] = "0" THEN ParseOk(JNum(0), j + 1)
                    ELSE ParseDigits(s, j, 0)
           IN  IF neg THEN ParseOk(JNum(0 - r.val.v[1]), r.pos) ELSE r

ParseLiteral(s, i, word, val) ==
  IF MatchAt(s, word, i) THEN ParseOk(val, i + Len(word)) ELSE ParseFail

\* members of an object: a repeated key is overwritten in place
PutMember(ms, k, val) ==
  IF \E n \in 1..Len(ms) : ms[n].k = k
  THEN [n \in 1..Len(ms) |-> IF ms[n].k = k THEN [k |-> k, v |-> val] ELSE ms[n]]
  ELSE Append(ms, [k |-> k, v |-> val])

RECURSIVE ParseValue(_, _)
RECURSIVE ParseElements(_, _, _)
RECURSIVE ParseMembers(_, _, _)

\* the value that starts at i (white space before it already skipped)
ParseValue(s, i) ==
  IF i > Len(s) THEN ParseFail
  ELSE IF s[i] = "{" THEN
    LET j == SkipWs(s, i + 1)
    IN  IF j <= Len(s) /\ s[j] = "}" THEN ParseOk(JObj(<<>>), j + 1)
        ELSE ParseMembers(s, j, <<>>)
  ELSE IF s[i] = "[" THEN
    LET j == SkipWs(s, i + 1)
    IN  IF j <= Len(s) /\ s[j] = "]" THEN ParseOk(JArr(<<>>), j + 1)
        ELSE ParseElements(s, j, <<>>)
  ELSE IF s[i] = QT THEN ParseString(s, i + 1, <<>>)
  ELSE IF s[i] = "-" \/ s[i] \in Digits THEN ParseNumber(s, i)
  ELSE IF s[i] = "t" THEN ParseLiteral(s, i, <<"t", "r", "u", "e">>, JBool(TRUE))
  ELSE IF s[i] = "f" THEN ParseLiteral(s, i, <<"f", "a", "l", "s", "e">>, JBool(FALSE))
  ELSE IF s[i] = "n" THEN ParseLiteral(s, i, <<"n", "u", "l", "l">>, JNull)
  ELSE ParseFail

\* elements of an array, from the start of an element
ParseElements(s, i, acc) ==
  LET r == ParseValue(s, i)
  IN  IF ~r.ok THEN ParseFail
      ELSE LET j == SkipWs(s, r.pos)
               es == Append(acc, r.val)
           IN  IF j > Len(s) THEN ParseFail
               ELSE IF s[j] = "]" THEN ParseOk(JArr(es), j + 1)
               ELSE IF s[j] = "," THEN ParseElements(s, SkipWs(s, j + 1), es)
               ELSE ParseFail

\* members of an object, from the start of a key
ParseMembers(s, i, acc) ==
  IF i > Len(s) \/ s[i] # QT THEN ParseFail
  ELSE
    LET k == ParseString(s, i + 1, <<>>)
    IN  IF ~k.ok THEN ParseFail
        ELSE
          LET c == SkipWs(s, k.pos)
          IN  IF c > Len(s) \/ s[c] # ":" THEN ParseFail
              ELSE
                LET r == ParseValue(s, SkipWs(s, c + 1))
                IN  IF ~r.ok THEN ParseFail
                    ELSE
                      LET j == SkipWs(s, r.pos)
                          ms == PutMember(acc, k.val.v, r.val)
                      IN  IF j > Len(s) THEN ParseFail
                          ELSE IF s[j] = "}" THEN ParseOk(JObj(ms), j + 1)
                          ELSE IF s[j] = "," THEN ParseMembers(s, SkipWs(s, j + 1), ms)
                          ELSE ParseFail

\* JSON.parse(text): ok = FALSE stands for the SyntaxError it throws
JSONParse(text) ==
  LET r == ParseValue(text, SkipWs(text, 1))
  IN  IF r.ok /\ SkipWs(text, r.pos) = Len(text) + 1
      THEN [ok |-> TRUE, val |-> r.val]
      ELSE [ok |-> FALSE, val |-> JNull]

\* obj.key of a parsed value: "undefined" for a missing key, never asked
\* of null
HasKey(val, k) == val.t = "obj" /\ \E n \in 1..Len(val.v) : val.v[n].k = k
GetKey(val, k) == (CHOOSE m \in {val.v[n] : n \in 1..Len(val.v)} : m.k = k).v

\* val[k] in JavaScript, for a val that is neither null nor undefined
JsProp(val, k) == IF HasKey(val, k) THEN GetKey(val, k) ELSE JUndef
\* reading a property of null or undefined raises a TypeError
PropThrows(val) == val.t \in {"null", "undefined"}
\* the values JavaScript takes for false
JFalsy(val) ==
  \/ val.t \in {"null", "undefined"}
  \/ val = JBool(FALSE) \/ val = JNum(0) \/ val = JStr(<<>>)
\* a || b
JOr(a, b) == IF JFalsy(a) THEN b ELSE a

\* every character of every string of a value, keys included
RECURSIVE ValueChars(_)
ValueChars(val) ==
  CASE val.t = "str" -> {val.v[n] : n \in 1..Len(val.v)}
    [] val.t = "arr" -> UNION {ValueChars(val.v[n]) : n \in 1..Len(val.v)}
    [] val.t = "obj" -> UNION {{val.v[n].k[c] : c \in 1..Len(val.v[n].k)}
                                 \cup ValueChars(val.v[n].v) : n \in 1..Len(val.v)}
    [] OTHER -> {}

\* ------------------------------------------------------------------------
\* Texts a provider may reply
\* ------------------------------------------------------------------------
\* a JSON object
TxtObj ==
  <<"{", QT, "a", QT, ":", "1", "}">>
\* prose, not JSON
TxtProse ==
  <<"S", "u", "r", "e">>
\* a currency sign inside a string
TxtDollar ==
  <<"{", QT, "q", QT, ":", QT, "$", "5", QT, "}">>
\* the currency sign written as a JSON escape
TxtDollarEscaped ==
  <<"{", QT, "q", QT, ":", QT, BSL, "u", "0", "0", "2", "4", "5", QT, "}">>
\* the escaped currency sign in a key
TxtDollarKey ==
  <<"{", QT, BSL, "u", "0", "0", "2", "4", QT, ":", QT, "U", "S", "D", " ",
    "5", QT, "}">>
\* a raw line feed inside a string: not JSON until control characters are removed
TxtRawNewline ==
  <<"{", QT, "q", QT, ":", QT, "a", NL, "b", QT, "}">>
\* four backticks inside a string
TxtTicks ==
  <<"[", QT, BT, BT, BT, BT, QT, "]">>

\* the four channels, as the prompt asks
TxtSocial ==
  <<"{", QT, "I", "n", "s", "t", "a", "g", "r", "a", "m", QT, ":", "{", QT,
    "c", "o", "n", "t", "e", "n", "t", QT, ":", QT, "a", QT, ",", QT, "h",
    "a", "s", "h", "t", "a", "g", "s", QT, ":", "[", QT, "h", QT, "]", "}",
    ",", QT, "F", "a", "c", "e", "b", "o", "o", "k", QT, ":", "{", QT, "c",
    "o", "n", "t", "e", "n", "t", QT, ":", QT, "b", QT, ",", QT, "l", "i",
    "n", "k", QT, ":", QT, "l", QT, "}", ",", QT, "X", QT, ":", "{", QT,
    "c", "o", "n", "t", "e", "n", "t", QT, ":", QT, "c", QT, ",", QT, "h",
    "a", "s", "h", "t", "a", "g", "s", QT, ":", "[", QT, "h", QT, "]", "}",
    ",", QT, "L", "i", "n", "k", "e", "d", "I", "n", QT, ":", "{", QT, "c",
    "o", "n", "t", "e", "n", "t", QT, ":", QT, "d", QT, ",", QT, "l", "i",
    "n", "k", QT, ":", QT, "l", QT, "}", "}">>
\* a reply that lacks three channels
TxtSocialPartial ==
  <<"{", QT, "I", "n", "s", "t", "a", "g", "r", "a", "m", QT, ":", "{", QT,
    "c", "o", "n", "t", "e", "n", "t", QT, ":", QT, "a", QT, ",", QT, "h",
    "a", "s", "h", "t", "a", "g", "s", QT, ":", "[", "]", "}", "}">>
\* the four channels with their content and nothing else
TxtSocialBare ==
  <<"{", QT, "I", "n", "s", "t", "a", "g", "r", "a", "m", QT, ":", "{", QT,
    "c", "o", "n", "t", "e", "n", "t", QT, ":", QT, "e", QT, "}", ",", QT,
    "F", "a", "c", "e", "b", "o", "o", "k", QT, ":", "{", QT, "c", "o",
    "n", "t", "e", "n", "t", QT, ":", QT, "f", QT, "}", ",", QT, "X", QT,
    ":", "{", QT, "c", "o", "n", "t", "e", "n", "t", QT, ":", QT, "g", QT,
    "}", ",", QT, "L", "i", "n", "k", "e", "d", "I", "n", QT, ":", "{", QT,
    "c", "o", "n", "t", "e", "n", "t", QT, ":", QT, "h", QT, "}", "}">>

\* an email campaign
TxtCampaign ==
  <<"{", QT, "d", "r", "i", "p", "s", QT, ":", "[", "{", QT, "s", "u", "b",
    "j", "e", "c", "t", QT, ":", QT, "s", QT, ",", QT, "c", "o", "n", "t",
    "e", "n", "t", QT, ":", QT, "c", QT, "}", "]", "}">>
\* a campaign that brings its own generated_at
TxtCampaignStamped ==
  <<"{", QT, "d", "r", "i", "p", "s", QT, ":", "[", "{", QT, "s", "u", "b",
    "j", "e", "c", "t", QT, ":", QT, "s", QT, ",", QT, "c", "o", "n", "t",
    "e", "n", "t", QT, ":", QT, "c", QT, "}", "]", ",", QT, "g", "e", "n",
    "e", "r", "a", "t", "e", "d", "_", "a", "t", QT, ":", QT, "x", QT, "}">>
\* the drips as a bare list
TxtCampaignList ==
  <<"[", "1", "]">>
\* the JSON literal null
TxtNull ==
  <<"n", "u", "l", "l">>

\* a polished post in the envelope the polish prompt asks for
TxtEnvelope ==
  <<"<", "a", "n", "a", "l", "y", "s", "i", "s", ">", "x", "<", "/", "a",
    "n", "a", "l", "y", "s", "i", "s", ">", "<", "p", "o", "l", "i", "s",
    "h", "e", "d", "_", "b", "l", "o", "g", "_", "p", "o", "s", "t", ">",
    "y", "<", "/", "p", "o", "l", "i", "s", "h", "e", "d", "_", "b", "l",
    "o", "g", "_", "p", "o", "s", "t", ">">>

\* a Markdown fenced code block around t, tagged json or untagged
WrapJson(t) == FenceJson \o t \o <<NL>> \o Fence
WrapPlain(t) == Fence \o <<NL>> \o t \o <<NL>> \o Fence

\* replies to the routes that parse JSON out of a Gemini reply
JsonReplies ==
  {TxtObj, WrapJson(TxtObj), WrapPlain(TxtObj), TxtProse, WrapJson(TxtProse),
   TxtDollar, TxtDollarEscaped, TxtDollarKey, TxtRawNewline, TxtTicks}

\* replies to the routes that return the provider's text as it is
ProseReplies == {TxtProse, TxtObj}

\* replies to the polish route (Anthropic)
PolishReplies == ProseReplies \cup {TxtEnvelope}

\* replies to the social route (OpenAI)
SocialReplies ==
  {TxtSocial, TxtSocialBare, TxtSocialPartial, WrapJson(TxtSocial),
   WrapPlain(TxtSocial), TxtProse, TxtNull}

\* replies to the email-campaign route (Gemini)
CampaignReplies ==
  {TxtCampaign, TxtCampaignStamped, TxtCampaignList, WrapJson(TxtCampaign),
   TxtProse, TxtNull}

\* the message of an exception thrown by a provider or datastore client
ErrorMessage == <<"f", "a", "i", "l">>
\* the message of a TypeError raised by the handler's own code
TypeErrorMessage == <<"T", "y", "p", "e", "E", "r", "r", "o", "r">>

\* what awaiting a provider call can give: a reply text or an exception
ProviderOutcomes(replies) ==
  {[ok |-> TRUE, text |-> t] : t \in replies} \cup {[ok |-> FALSE, text |-> <<>>]}

\* ------------------------------------------------------------------------
\* State
\* ------------------------------------------------------------------------
VARIABLES
  workload, \* the routes the clients of this behaviour call
  active,   \* the request slots in use: handlers that may be in flight
  reqs,     \* per slot: the request being handled and its responses
  posts,    \* the blog_posts table, row id = index
  users,    \* the user records behind the billing RPCs
  stripe,   \* the payment provider: customers and checkout sessions created
  now,      \* the clock read by new Date()
  probe,    \* a text under examination by the text operations
  process   \* the Node process: its environment, and whether it listens

vars == <<workload, active, reqs, posts, users, stripe, now, probe, process>>

Slots == {"r1", "r2"}

\* JavaScript undefined and falsiness of request fields (strings)
Undefined == "undefined"
Falsy(v) == v \in {Undefined, ""}

IdleReq ==
  [route |-> "none", id |-> 0, body |-> [none |-> TRUE], pc |-> "idle",
   calls |-> 0, outcome |-> "none", reply |-> <<>>, parsed |-> JNull,
   db |-> "none", pay |-> "none", stamp |-> 0, at |-> "none", resps |-> <<>>]

NewReq(route, id, body) ==
  [IdleReq EXCEPT !.route = route, !.id = id, !.body = body, !.pc = "start"]

Free(r, route) == route \in workload /\ r \in active /\ reqs[r].pc = "idle"
At(r, route, pc) == r \in active /\ reqs[r].route = route /\ reqs[r].pc = pc

\* res.status(status).json(body) with an error body
ErrorResponse(status, body) ==
  [status |-> status, type |-> "json", kind |-> "error", body |-> body]
\* res.json(body): status 200
JsonResponse(kind, body) ==
  [status |-> 200, type |-> "json", kind |-> kind, body |-> body]
\* res.status(status).send(text)
TextResponse(status, text) ==
  [status |-> status, type |-> "text", kind |-> "text", body |-> text]

\* at keeps the step of the handler that sent the response
Respond(q, resp) == [q EXCEPT !.resps = Append(@, resp), !.at = q.pc, !.pc = "done"]

\* the provider call is issued and awaited
CallProvider(q) == [q EXCEPT !.pc = "provider", !.calls = @ + 1]

\* the awaited provider call has settled
Settled(q, out) ==
  [q EXCEPT !.outcome = IF out.ok THEN "ok" ELSE "throw", !.reply = out.text]
\* the awaited datastore call has settled
DbSettled(q, db) == [q EXCEPT !.db = db]
\* the awaited payment-provider call has settled
PaySettled(q, ok) == [q EXCEPT !.pay = IF ok THEN "ok" ELSE "throw"]

\* the response has been sent and the handler has returned: the slot is free
Release(r) ==
  /\ r \in active /\ reqs[r].pc = "done"
  /\ reqs' = [reqs EXCEPT ![r] = IdleReq]
  /\ UNCHANGED <<workload, active, posts, users, stripe, now, probe, process>>

\* the levels the logger object defines
LoggerLevels == {"info", "error", "request", "response"}

\* ------------------------------------------------------------------------
\* POST /api/generate/structure
\* ------------------------------------------------------------------------
CompanyValues ==
  [present : {TRUE}, company_name : {Undefined, "n"}, industry : {Undefined, "i"},
   tagline : {Undefined, "t"}]
NoCompany ==
  [present |-> FALSE, company_name |-> Undefined, industry |-> Undefined,
   tagline |-> Undefined]
FullCompany ==
  [present |-> TRUE, company_name |-> "n", industry |-> "i", tagline |-> "t"]

StructureBodies ==
  [titleConcept : {Undefined, "", "topic"}, company : {NoCompany, FullCompany}]
    \cup [titleConcept : {"topic"}, company : CompanyValues]

\* the validation with the tagline check forgotten
StructureValidateNoTagline(q) ==
  LET b == q.body
  IN  IF Falsy(b.titleConcept) \/ ~b.company.present
        THEN Respond(q, ErrorResponse(400, [error |-> "Missing required fields"]))
      ELSE IF Falsy(b.company.company_name) \/ Falsy(b.company.industry)
        THEN Respond(q, ErrorResponse(400, [error |-> "Missing company information"]))
      ELSE CallProvider(q)

StructureValidate(q) ==
  LET b == q.body
  IN  IF Falsy(b.titleConcept) \/ ~b.company.present
        THEN Respond(q, ErrorResponse(400, [error |-> "Missing required fields"]))
      ELSE IF \/ Falsy(b.company.company_name)
              \/ Falsy(b.company.industry)
              \/ Falsy(b.company.tagline)
        THEN Respond(q, ErrorResponse(400, [error |-> "Missing company information"]))
      ELSE CallProvider(q)

\* the parse failure reporting the reply as it came, fences and all
StructureFinishRawDetails(q, out) ==
  LET s == Settled(q, out)
      text == StripFences(out.text)
      p == JSONParse(text)
  IN  IF ~out.ok
        THEN Respond(s, ErrorResponse(500,
               [error |-> "Failed to generate content from AI", details |-> ErrorMessage]))
      ELSE IF p.ok
        THEN Respond([s EXCEPT !.parsed = p.val], JsonResponse("value", p.val))
      ELSE Respond(s, ErrorResponse(500,
               [error |-> "Failed to generate valid blog structure", details |-> out.text]))

StructureFinish(q, out) ==
  LET s == Settled(q, out)
      text == StripFences(out.text)
      p == JSONParse(text)
  IN  IF ~out.ok
        THEN Respond(s, ErrorResponse(500,
               [error |-> "Failed to generate content from AI", details |-> ErrorMessage]))
      ELSE IF p.ok
        THEN Respond([s EXCEPT !.parsed = p.val], JsonResponse("value", p.val))
      ELSE Respond(s, ErrorResponse(500,
               [error |-> "Failed to generate valid blog structure", details |-> text]))

GenerateStructure(r) ==
  /\ Free(r, "structure")
  /\ \E body \in StructureBodies :
       reqs' = [reqs EXCEPT ![r] = StructureValidate(NewReq("structure", 0, body))]
  /\ UNCHANGED <<workload, active, posts, users, stripe, now, probe, process>>

GenerateStructureReply(r) ==
  /\ At(r, "structure", "provider")
  /\ \E out \in ProviderOutcomes(JsonReplies) :
       reqs' = [reqs EXCEPT ![r] = StructureFinish(@, out)]
  /\ UNCHANGED <<workload, active, posts, users, stripe, now, probe, process>>

\* ------------------------------------------------------------------------
\* POST /api/generate/facts
\* ------------------------------------------------------------------------
FactsBodies ==
  [questions : {[kind |-> "undefined", items |-> <<>>],
                [kind |-> "string", items |-> <<>>],
                [kind |-> "array", items |-> <<>>],
                [kind |-> "array", items |-> <<"q1">>]}]

\* the catch block of the facts handler
FactsCatch(q, message) ==
  Respond(q, ErrorResponse(500,
    [error |-> "Failed to research facts", details |-> message, stack |-> message]))

FactsValidate(q) ==
  LET questions == q.body.questions
  IN  IF questions.kind # "array" \/ Len(questions.items) = 0
        THEN IF "warn" \in LoggerLevels
               THEN Respond(q, ErrorResponse(400,
                      [error |-> "Please provide an array of questions under questions"]))
               ELSE FactsCatch(q, TypeErrorMessage)
      ELSE CallProvider(q)

FactsFinish(q, out) ==
  LET s == Settled(q, out)
      text == CleanFacts(out.text)
      p == JSONParse(text)
  IN  IF ~out.ok THEN FactsCatch(s, ErrorMessage)
      ELSE IF p.ok
        THEN Respond([s EXCEPT !.parsed = p.val], JsonResponse("value", p.val))
      ELSE Respond(s, ErrorResponse(500,
             [error |-> "Failed to parse facts response", details |-> ErrorMessage,
              rawText |-> text]))

GenerateFacts(r) ==
  /\ Free(r, "facts")
  /\ \E body \in FactsBodies :
       reqs' = [reqs EXCEPT ![r] = FactsValidate(NewReq("facts", 0, body))]
  /\ UNCHANGED <<workload, active, posts, users, stripe, now, probe, process>>

GenerateFactsReply(r) ==
  /\ At(r, "facts", "provider")
  /\ \E out \in ProviderOutcomes(JsonReplies) :
       reqs' = [reqs EXCEPT ![r] = FactsFinish(@, out)]
  /\ UNCHANGED <<workload, active, posts, users, stripe, now, probe, process>>

\* ------------------------------------------------------------------------
\* POST /api/generate/article
\* ------------------------------------------------------------------------
ArticleBodies == [company : {NoCompany, FullCompany}]

\* company.company_name of a missing company raises a TypeError
ArticleValidate(q) ==
  IF ~q.body.company.present
    THEN Respond(q, ErrorResponse(500, [error |-> "Failed to generate article"]))
  ELSE CallProvider(q)

ArticleFinish(q, out) ==
  LET s == Settled(q, out)
  IN  IF ~out.ok
        THEN Respond(s, ErrorResponse(500, [error |-> "Failed to generate article"]))
      ELSE Respond(s, JsonResponse("content", [content |-> out.text]))

GenerateArticle(r) ==
  /\ Free(r, "article")
  /\ \E body \in ArticleBodies :
       reqs' = [reqs EXCEPT ![r] = ArticleValidate(NewReq("article", 0, body))]
  /\ UNCHANGED <<workload, active, posts, users, stripe, now, probe, process>>

GenerateArticleReply(r) ==
  /\ At(r, "article", "provider")
  /\ \E out \in ProviderOutcomes(ProseReplies) :
       reqs' = [reqs EXCEPT ![r] = ArticleFinish(@, out)]
  /\ UNCHANGED <<workload, active, posts, users, stripe, now, probe, process>>

\* ------------------------------------------------------------------------
\* POST /api/generate/verify
\* ------------------------------------------------------------------------
VerifyBodies == [draft : {Undefined, "", "d"}]

\* the check looking for a missing draft only
VerifyValidateMissingOnly(q) ==
  IF q.body.draft = Undefined
    THEN Respond(q, ErrorResponse(400,
           [error |-> "Please provide a draft field with the blog post text."]))
  ELSE CallProvider(q)

VerifyValidate(q) ==
  IF Falsy(q.body.draft)
    THEN Respond(q, ErrorResponse(400,
           [error |-> "Please provide a draft field with the blog post text."]))
  ELSE CallProvider(q)

\* the handler asking the provider again when the reply does not parse
VerifyFinishRetry(q, out) ==
  LET s == Settled(q, out)
      text == StripFences(out.text)
      p == JSONParse(text)
  IN  IF ~out.ok
        THEN Respond(s, ErrorResponse(500, [error |-> "Failed to verify article"]))
      ELSE IF p.ok
        THEN Respond([s EXCEPT !.parsed = p.val], JsonResponse("value", p.val))
      ELSE CallProvider(s)

VerifyFinish(q, out) ==
  LET s == Settled(q, out)
      text == StripFences(out.text)
      p == JSONParse(text)
  IN  IF ~out.ok
        THEN Respond(s, ErrorResponse(500, [error |-> "Failed to verify article"]))
      ELSE IF p.ok
        THEN Respond([s EXCEPT !.parsed = p.val], JsonResponse("value", p.val))
      ELSE Respond(s, ErrorResponse(500,
             [error |-> "Failed to generate valid verification response",
              details |-> text]))

GenerateVerify(r) ==
  /\ Free(r, "verify")
  /\ \E body \in VerifyBodies :
       reqs' = [reqs EXCEPT ![r] = VerifyValidate(NewReq("verify", 0, body))]
  /\ UNCHANGED <<workload, active, posts, users, stripe, now, probe, process>>

GenerateVerifyReply(r) ==
  /\ At(r, "verify", "provider")
  /\ \E out \in ProviderOutcomes(JsonReplies) :
       reqs' = [reqs EXCEPT ![r] = VerifyFinish(@, out)]
  /\ UNCHANGED <<workload, active, posts, users, stripe, now, probe, process>>

\* ------------------------------------------------------------------------
\* POST /api/generate/polish
\* ------------------------------------------------------------------------
PolishBodies == [content : {Undefined, "c"}, corrections : {Undefined, "x"}]

\* the handler refusing to polish before a post has been saved
PolishValidateAfterSave(q) ==
  IF posts = <<>>
    THEN Respond(q, ErrorResponse(400, [error |-> "No post to polish"]))
  ELSE CallProvider(q)

\* the handler validates nothing
PolishValidate(q) == CallProvider(q)

\* the handler refusing a reply without the two sections
PolishFinishChecked(q, out) ==
  LET s == Settled(q, out)
  IN  IF ~out.ok \/ IndexOf(out.text, <<"<", "a", "n", "a", "l", "y", "s", "i", "s", ">">>) = 0
        THEN Respond(s, ErrorResponse(500, [error |-> "Failed to polish article"]))
      ELSE Respond(s, JsonResponse("content", [content |-> out.text]))

PolishFinish(q, out) ==
  LET s == Settled(q, out)
  IN  IF ~out.ok
        THEN Respond(s, ErrorResponse(500, [error |-> "Failed to polish article"]))
      ELSE Respond(s, JsonResponse("content", [content |-> out.text]))

GeneratePolish(r) ==
  /\ Free(r, "polish")
  /\ \E body \in PolishBodies :
       reqs' = [reqs EXCEPT ![r] = PolishValidate(NewReq("polish", 0, body))]
  /\ UNCHANGED <<workload, active, posts, users, stripe, now, probe, process>>

GeneratePolishReply(r) ==
  /\ At(r, "polish", "provider")
  /\ \E out \in ProviderOutcomes(PolishReplies) :
       reqs' = [reqs EXCEPT ![r] = PolishFinish(@, out)]
  /\ UNCHANGED <<workload, active, posts, users, stripe, now, probe, process>>

\* ------------------------------------------------------------------------
\* POST /api/generate/html
\* ------------------------------------------------------------------------
HtmlBodies ==
  [content : {"c"},
   metadata : {[present |-> FALSE, hasKeywords |-> FALSE],
               [present |-> TRUE, hasKeywords |-> FALSE],
               [present |-> TRUE, hasKeywords |-> TRUE]}]

\* metadata.title of a missing metadata, or metadata.keywords.join of missing
\* keywords, raises a TypeError
HtmlValidate(q) ==
  IF ~q.body.metadata.present \/ ~q.body.metadata.hasKeywords
    THEN Respond(q, ErrorResponse(500, [error |-> "Failed to generate HTML"]))
  ELSE CallProvider(q)

HtmlFinish(q, out) ==
  LET s == Settled(q, out)
  IN  IF ~out.ok
        THEN Respond(s, ErrorResponse(500, [error |-> "Failed to generate HTML"]))
      ELSE Respond(s, JsonResponse("html", [html |-> out.text]))

GenerateHtml(r) ==
  /\ Free(r, "html")
  /\ \E body \in HtmlBodies :
       reqs' = [reqs EXCEPT ![r] = HtmlValidate(NewReq("html", 0, body))]
  /\ UNCHANGED <<workload, active, posts, users, stripe, now, probe, process>>

GenerateHtmlReply(r) ==
  /\ At(r, "html", "provider")
  /\ \E out \in ProviderOutcomes(ProseReplies) :
       reqs' = [reqs EXCEPT ![r] = HtmlFinish(@, out)]
  /\ UNCHANGED <<workload, active, posts, users, stripe, now, probe, process>>

\* ------------------------------------------------------------------------
\* The blog_posts table.  A column the insert does not give is null; an
\* update leaves alone every column its payload does not give (a payload
\* member that is undefined is dropped when the payload is serialised).
\* ------------------------------------------------------------------------
SocialColumns ==
  {"instagram_post_content", "instagram_hashtags", "facebook_post_content",
   "facebook_post_link", "x_post_content", "x_hashtags", "linkedin_post_content",
   "linkedin_post_link", "social_posts_generated_at"}
EmailColumns == {"email_drip_campaigns"}
ArtifactColumns ==
  {"id", "user_id", "company_id", "title_concept", "structure", "facts", "article",
   "polished", "final_html", "metadata", "created_at"}
Columns == ArtifactColumns \cup SocialColumns \cup EmailColumns

\* new Date().toISOString() at clock value n
Iso(n) == JStr(<<"T", CHOOSE c \in Digits : DigitVal(c) = n>>)

NullIfUndefined(val) == IF val = JUndef THEN JNull ELSE val

\* the row the datastore makes of an inserted record
InsertedRow(id, record) ==
  [c \in Columns |->
     IF c = "id" THEN JNum(id)
     ELSE IF c \in DOMAIN record THEN NullIfUndefined(record[c])
     ELSE JNull]

\* the update replacing the row: a column the payload does not give is lost
UpdateRowsReplace(table, id, payload) ==
  [n \in 1..Len(table) |->
     IF n # id THEN table[n]
     ELSE [c \in Columns |->
             IF c \in DOMAIN payload /\ payload[c] # JUndef THEN payload[c]
             ELSE IF c \in ArtifactColumns THEN table[n][c]
             ELSE JNull]]

\* update(payload).eq('id', id) on the table
UpdateRows(table, id, payload) ==
  [n \in 1..Len(table) |->
     IF n # id THEN table[n]
     ELSE [c \in Columns |->
             IF c \in DOMAIN payload /\ payload[c] # JUndef
             THEN payload[c] ELSE table[n][c]]]

\* select('*').eq('id', id).maybeSingle()
RowExists(table, id) == id \in 1..Len(table)

PostIds == 1..(MaxPosts + 1)

\* what awaiting a datastore call can give: its result or an error
DbOutcomes == {"ok", "error"}

\* ------------------------------------------------------------------------
\* POST /api/posts
\* ------------------------------------------------------------------------
StructureValue ==
  JObj(<<[k |-> K_title, v |-> JStr(<<"t">>)],
         [k |-> K_keywords, v |-> JArr(<<JStr(<<"k">>)>>)]>>)

FactsValue == JObj(<<[k |-> <<"q">>, v |-> JStr(<<"f">>)]>>)

PostBodies ==
  [user_id : {JStr(<<"u">>)}, company_id : {JStr(<<"c">>)},
   title_concept : {JStr(<<"t">>)}, structure : {JUndef, StructureValue},
   facts : {JUndef, FactsValue}, article : {JStr(<<"a">>)}, polished : {JStr(<<"p">>)},
   final_html : {JStr(<<"h">>)}]

\* structure?.key
OptProp(val, k) == IF PropThrows(val) THEN JUndef ELSE JsProp(val, k)

\* an object literal as it is serialised: undefined members are dropped
Serialised(members) == JObj(SelectSeq(members, LAMBDA m : m.v # JUndef))

\* the summary without the || defaults
MetadataNoDefaults(structure, facts) ==
  Serialised(<<
    [k |-> K_title, v |-> OptProp(structure, K_title)],
    [k |-> K_keywords, v |-> OptProp(structure, K_keywords)],
    [k |-> K_sections, v |-> OptProp(structure, K_sections)],
    [k |-> K_research_questions, v |-> OptProp(structure, K_research_questions)],
    [k |-> K_facts, v |-> facts]>>)

Metadata(structure, facts) ==
  Serialised(<<
    [k |-> K_title, v |-> OptProp(structure, K_title)],
    [k |-> K_keywords, v |-> JOr(OptProp(structure, K_keywords), JArr(<<>>))],
    [k |-> K_sections, v |-> JOr(OptProp(structure, K_sections), JArr(<<>>))],
    [k |-> K_research_questions,
     v |-> JOr(OptProp(structure, K_research_questions), JObj(<<>>))],
    [k |-> K_facts, v |-> JOr(facts, JObj(<<>>))]>>)

PostRecord(body, stamp) ==
  [user_id |-> body.user_id, company_id |-> body.company_id,
   title_concept |-> body.title_concept, structure |-> body.structure,
   facts |-> body.facts, article |-> body.article, polished |-> body.polished,
   final_html |-> body.final_html,
   metadata |-> Metadata(body.structure, body.facts), created_at |-> Iso(stamp)]

\* the clients of the posts routes store posts with and without structure
\* and facts; the posts that the other clients store come out of the whole
\* pipeline
SentBodies ==
  IF {"posts.list", "posts.get"} \subseteq workload
    THEN PostBodies
  ELSE {body \in PostBodies :
          body.structure = StructureValue /\ body.facts = FactsValue}

PostsCreate(r) ==
  /\ Free(r, "posts.create")
  /\ \E body \in SentBodies :
       reqs' = [reqs EXCEPT ![r] =
                  [NewReq("posts.create", 0, body) EXCEPT !.pc = "insert", !.stamp = now]]
  /\ UNCHANGED <<workload, active, posts, users, stripe, now, probe, process>>

PostsCreateReply(r) ==
  /\ At(r, "posts.create", "insert")
  /\ \E db \in DbOutcomes :
       IF db = "ok"
       THEN LET row == InsertedRow(Len(posts) + 1, PostRecord(reqs[r].body, reqs[r].stamp))
            IN  /\ Len(posts) < MaxPosts
                /\ posts' = Append(posts, row)
                /\ reqs' = [reqs EXCEPT ![r] =
                              Respond(DbSettled(@, db), JsonResponse("row", row))]
       ELSE /\ posts' = posts
            /\ reqs' = [reqs EXCEPT ![r] =
                          Respond(DbSettled(@, db),
                                  ErrorResponse(500, [error |-> "Failed to save blog post"]))]
  /\ UNCHANGED <<workload, active, users, stripe, now, probe, process>>

\* ------------------------------------------------------------------------
\* GET /api/posts
\* ------------------------------------------------------------------------
\* order('created_at', { ascending: false }): rows of equal created_at come
\* in an order the datastore chooses
Stamp(row) == DigitVal(row.created_at.v[2])
OrderedDesc(rows) ==
  \A i, j \in 1..Len(rows) : i < j => Stamp(rows[i]) >= Stamp(rows[j])
\* the order with ascending: true
OrderingsAscending(table) ==
  {rows \in [1..Len(table) -> {table[n] : n \in 1..Len(table)}] :
     /\ \A n \in 1..Len(table) : \E m \in 1..Len(table) : rows[m] = table[n]
     /\ \A i, j \in 1..Len(rows) : i < j => Stamp(rows[i]) =< Stamp(rows[j])}

Orderings(table) ==
  {rows \in [1..Len(table) -> {table[n] : n \in 1..Len(table)}] :
     /\ \A n \in 1..Len(table) : \E m \in 1..Len(table) : rows[m] = table[n]
     /\ OrderedDesc(rows)}

PostsList(r) ==
  /\ Free(r, "posts.list")
  /\ reqs' = [reqs EXCEPT ![r] = [NewReq("posts.list", 0, [none |-> TRUE]) EXCEPT !.pc = "select"]]
  /\ UNCHANGED <<workload, active, posts, users, stripe, now, probe, process>>

PostsListReply(r) ==
  /\ At(r, "posts.list", "select")
  /\ \E db \in DbOutcomes :
       IF db = "ok"
       THEN \E rows \in Orderings(posts) :
              reqs' = [reqs EXCEPT ![r] = Respond(DbSettled(@, db), JsonResponse("rows", rows))]
       ELSE reqs' = [reqs EXCEPT ![r] =
                       Respond(DbSettled(@, db),
                               ErrorResponse(500, [error |-> "Failed to fetch blog posts"]))]
  /\ UNCHANGED <<workload, active, posts, users, stripe, now, probe, process>>

\* ------------------------------------------------------------------------
\* GET /api/posts/:id
\* ------------------------------------------------------------------------
\* the fetch without the check of the row found
PostsGetFinishUnchecked(q, db, table) ==
  LET s == DbSettled(q, db)
  IN  IF db = "error"
        THEN Respond(s, ErrorResponse(500, [error |-> "Failed to fetch blog post"]))
      ELSE Respond(s, JsonResponse("row", IF RowExists(table, q.id) THEN table[q.id] ELSE JNull))

PostsGetFinish(q, db, table) ==
  LET s == DbSettled(q, db)
  IN  IF db = "error"
        THEN Respond(s, ErrorResponse(500, [error |-> "Failed to fetch blog post"]))
      ELSE IF ~RowExists(table, q.id)
        THEN Respond(s, ErrorResponse(500, [error |-> "Failed to fetch blog post"]))
      ELSE Respond(s, JsonResponse("row", table[q.id]))

PostsGet(r) ==
  /\ Free(r, "posts.get")
  /\ \E id \in PostIds :
       reqs' = [reqs EXCEPT ![r] = [NewReq("posts.get", id, [none |-> TRUE]) EXCEPT !.pc = "select"]]
  /\ UNCHANGED <<workload, active, posts, users, stripe, now, probe, process>>

PostsGetReply(r) ==
  /\ At(r, "posts.get", "select")
  /\ \E db \in DbOutcomes :
       reqs' = [reqs EXCEPT ![r] = PostsGetFinish(@, db, posts)]
  /\ UNCHANGED <<workload, active, posts, users, stripe, now, probe, process>>

\* ------------------------------------------------------------------------
\* POST /api/posts/:id/social
\* ------------------------------------------------------------------------
ContentBodies == [content : {Undefined, "", "c"}]

SocialError(q) ==
  Respond(q, ErrorResponse(500, [error |-> "Failed to generate social media posts"]))

SocialValidate(q) ==
  IF Falsy(q.body.content)
    THEN Respond(q, ErrorResponse(400, [error |-> "Content is required"]))
  ELSE CallProvider(q)

\* the inner catch answers the parse failure and rethrows, and the outer
\* catch answers again
SocialParseAnswersTwice(q, out) ==
  LET s == Settled(q, out)
      p == JSONParse(Trim(out.text))
  IN  IF ~out.ok THEN SocialError(s)
      ELSE IF ~p.ok THEN SocialError(SocialError(s))
      ELSE [s EXCEPT !.parsed = p.val, !.pc = "select"]

\* JSON.parse(rawContent.trim()), then the select of the post is issued
SocialParse(q, out) ==
  LET s == Settled(q, out)
      p == JSONParse(Trim(out.text))
  IN  IF ~out.ok THEN SocialError(s)
      ELSE IF ~p.ok THEN SocialError(s)
      ELSE [s EXCEPT !.parsed = p.val, !.pc = "select"]

Channels == <<K_Instagram, K_Facebook, K_X, K_LinkedIn>>

\* building the update payload reads a property of every channel
PayloadThrows(socialPosts) ==
  \/ PropThrows(socialPosts)
  \/ \E n \in 1..Len(Channels) : PropThrows(JsProp(socialPosts, Channels[n]))

\* the payload stamping created_at along with the social columns
SocialPayloadStamping(socialPosts, stamp) ==
  [instagram_post_content |-> JsProp(JsProp(socialPosts, K_Instagram), K_content),
   instagram_hashtags |-> JsProp(JsProp(socialPosts, K_Instagram), K_hashtags),
   facebook_post_content |-> JsProp(JsProp(socialPosts, K_Facebook), K_content),
   facebook_post_link |-> JsProp(JsProp(socialPosts, K_Facebook), K_link),
   x_post_content |-> JsProp(JsProp(socialPosts, K_X), K_content),
   x_hashtags |-> JsProp(JsProp(socialPosts, K_X), K_hashtags),
   linkedin_post_content |-> JsProp(JsProp(socialPosts, K_LinkedIn), K_content),
   linkedin_post_link |-> JsProp(JsProp(socialPosts, K_LinkedIn), K_link),
   social_posts_generated_at |-> Iso(stamp),
   created_at |-> Iso(stamp + 1)]

SocialPayload(socialPosts, stamp) ==
  [instagram_post_content |-> JsProp(JsProp(socialPosts, K_Instagram), K_content),
   instagram_hashtags |-> JsProp(JsProp(socialPosts, K_Instagram), K_hashtags),
   facebook_post_content |-> JsProp(JsProp(socialPosts, K_Facebook), K_content),
   facebook_post_link |-> JsProp(JsProp(socialPosts, K_Facebook), K_link),
   x_post_content |-> JsProp(JsProp(socialPosts, K_X), K_content),
   x_hashtags |-> JsProp(JsProp(socialPosts, K_X), K_hashtags),
   linkedin_post_content |-> JsProp(JsProp(socialPosts, K_LinkedIn), K_content),
   linkedin_post_link |-> JsProp(JsProp(socialPosts, K_LinkedIn), K_link),
   social_posts_generated_at |-> Iso(stamp)]

\* the select with the check of the row found left out
SocialFetchedUnchecked(q, db, table, clock) ==
  LET s == DbSettled(q, db)
  IN  IF db = "error" THEN SocialError(s)
      ELSE IF PayloadThrows(q.parsed) THEN SocialError(s)
      ELSE [s EXCEPT !.pc = "update", !.stamp = clock]

\* the select has settled: the post is looked for and the update is issued
SocialFetched(q, db, table, clock) ==
  LET s == DbSettled(q, db)
  IN  IF db = "error" THEN SocialError(s)
      ELSE IF ~RowExists(table, q.id) THEN SocialError(s)
      ELSE IF PayloadThrows(q.parsed) THEN SocialError(s)
      ELSE [s EXCEPT !.pc = "update", !.stamp = clock]

\* the update is followed by a call of logger.warn, which the logger lacks:
\* the TypeError is caught and answered
SocialUpdatedWarns(q, db) == SocialError(DbSettled(q, db))

SocialUpdated(q, db) ==
  IF db = "error" THEN SocialError(DbSettled(q, db))
  ELSE Respond(DbSettled(q, db), JsonResponse("value", q.parsed))

PostsSocial(r) ==
  /\ Free(r, "posts.social")
  /\ \E id \in PostIds, body \in ContentBodies :
       reqs' = [reqs EXCEPT ![r] = SocialValidate(NewReq("posts.social", id, body))]
  /\ UNCHANGED <<workload, active, posts, users, stripe, now, probe, process>>

PostsSocialReply(r) ==
  /\ At(r, "posts.social", "provider")
  /\ \E out \in ProviderOutcomes(SocialReplies) :
       reqs' = [reqs EXCEPT ![r] = SocialParse(@, out)]
  /\ UNCHANGED <<workload, active, posts, users, stripe, now, probe, process>>

PostsSocialSelect(r) ==
  /\ At(r, "posts.social", "select")
  /\ \E db \in DbOutcomes :
       reqs' = [reqs EXCEPT ![r] = SocialFetched(@, db, posts, now)]
  /\ UNCHANGED <<workload, active, posts, users, stripe, now, probe, process>>

PostsSocialUpdate(r) ==
  /\ At(r, "posts.social", "update")
  /\ \E db \in DbOutcomes :
       /\ reqs' = [reqs EXCEPT ![r] = SocialUpdated(@, db)]
       /\ posts' = IF db = "ok"
                   THEN UpdateRows(posts, reqs[r].id, SocialPayload(reqs[r].parsed, reqs[r].stamp))
                   ELSE posts
  /\ UNCHANGED <<workload, active, users, stripe, now, probe, process>>

\* ------------------------------------------------------------------------
\* POST /api/posts/:id/email-campaign
\* ------------------------------------------------------------------------
\* the catch block: details is the message of the error caught
CampaignError(q, message) ==
  Respond(q, ErrorResponse(500,
    [error |-> "Failed to generate email campaign", details |-> message]))

\* "Failed to parse Gemini response: " and the SyntaxError's message
ParseErrorMessage == <<"p", "a", "r", "s", "e">>

CampaignValidate(q) ==
  IF Falsy(q.body.content)
    THEN Respond(q, ErrorResponse(400, [error |-> "Content is required"]))
  ELSE CallProvider(q)

\* emailCampaign.generated_at = stamp, in strict mode: a TypeError on null
\* and on a primitive; a property set on an array is not serialised
StampThrows(val) == val.t \notin {"obj", "arr"}
Stamped(val, stamp) ==
  IF val.t = "obj" THEN JObj(PutMember(val.v, K_generated_at, Iso(stamp))) ELSE val

\* the reply is cleaned, parsed and stamped, and the update is issued
CampaignParse(q, out, clock) ==
  LET s == Settled(q, out)
      text == StripFences(out.text)
      p == JSONParse(text)
  IN  IF ~out.ok THEN CampaignError(s, ErrorMessage)
      ELSE IF ~p.ok THEN CampaignError(s, ParseErrorMessage)
      ELSE IF StampThrows(p.val) THEN CampaignError(s, TypeErrorMessage)
      ELSE [s EXCEPT !.parsed = Stamped(p.val, clock), !.stamp = clock, !.pc = "update"]

CampaignUpdated(q, db) ==
  IF db = "error" THEN CampaignError(DbSettled(q, db), ErrorMessage)
  ELSE Respond(DbSettled(q, db), JsonResponse("value", q.parsed))

PostsEmailCampaign(r) ==
  /\ Free(r, "posts.email")
  /\ \E id \in PostIds, body \in ContentBodies :
       reqs' = [reqs EXCEPT ![r] = CampaignValidate(NewReq("posts.email", id, body))]
  /\ UNCHANGED <<workload, active, posts, users, stripe, now, probe, process>>

PostsEmailCampaignReply(r) ==
  /\ At(r, "posts.email", "provider")
  /\ \E out \in ProviderOutcomes(CampaignReplies) :
       reqs' = [reqs EXCEPT ![r] = CampaignParse(@, out, now)]
  /\ UNCHANGED <<workload, active, posts, users, stripe, now, probe, process>>

PostsEmailCampaignUpdate(r) ==
  /\ At(r, "posts.email", "update")
  /\ \E db \in DbOutcomes :
       /\ reqs' = [reqs EXCEPT ![r] = CampaignUpdated(@, db)]
       /\ posts' = IF db = "ok"
                   THEN UpdateRows(posts, reqs[r].id, [email_drip_campaigns |-> reqs[r].parsed])
                   ELSE posts
  /\ UNCHANGED <<workload, active, users, stripe, now, probe, process>>

\* the clock advances
Tick ==
  /\ now < MaxTime
  /\ now' = now + 1
  /\ UNCHANGED <<workload, active, reqs, posts, users, stripe, probe, process>>

\* ------------------------------------------------------------------------
\* Billing: createCheckoutSession (POST /api/create-checkout-session)
\* users maps a known user id to its record; stripe.customers[c] is the
\* metadata.userId of customer c, stripe.sessions the customer of each
\* checkout session created.
\* ------------------------------------------------------------------------
KnownUsers == {"u1"}
NoCustomer == 0

CheckoutBodies == [priceId : {Undefined, "p"}, userId : {Undefined, "u1", "u2"}]

\* userId is not looked at
CheckoutValidatePriceOnly(q) ==
  IF Falsy(q.body.priceId)
    THEN Respond(q, ErrorResponse(400, [error |-> "Missing required fields"]))
  ELSE [q EXCEPT !.pc = "user"]

CheckoutValidate(q) ==
  IF Falsy(q.body.priceId) \/ Falsy(q.body.userId)
    THEN Respond(q, ErrorResponse(400, [error |-> "Missing required fields"]))
  ELSE [q EXCEPT !.pc = "user"]

CheckoutCatch(q) ==
  Respond(q, ErrorResponse(500, [error |-> "Internal server error: "]))

\* the customer id the user holds is not looked at: a customer is created
\* on every request
CheckoutUserFetchedAlwaysCreates(q, db, table) ==
  LET s == DbSettled(q, db)
  IN  IF db = "error"
        THEN Respond(s, ErrorResponse(400, [error |-> "Error fetching user: "]))
      ELSE IF q.body.userId \notin DOMAIN table
        THEN Respond(s, ErrorResponse(404, [error |-> "User not found"]))
      ELSE [s EXCEPT !.pc = "customer"]

\* rpc('get_user_details') has settled
CheckoutUserFetched(q, db, table) ==
  LET s == DbSettled(q, db)
  IN  IF db = "error"
        THEN Respond(s, ErrorResponse(400, [error |-> "Error fetching user: "]))
      ELSE IF q.body.userId \notin DOMAIN table
        THEN Respond(s, ErrorResponse(404, [error |-> "User not found"]))
      ELSE IF table[q.body.userId].stripe_customer_id = NoCustomer
        THEN [s EXCEPT !.pc = "customer"]
      ELSE [s EXCEPT !.stamp = table[q.body.userId].stripe_customer_id, !.pc = "session"]

createCheckoutSession(r) ==
  /\ Free(r, "checkout")
  /\ \E body \in CheckoutBodies :
       reqs' = [reqs EXCEPT ![r] = CheckoutValidate(NewReq("checkout", 0, body))]
  /\ UNCHANGED <<workload, active, posts, users, stripe, now, probe, process>>

createCheckoutSessionUser(r) ==
  /\ At(r, "checkout", "user")
  /\ \E db \in DbOutcomes :
       reqs' = [reqs EXCEPT ![r] = CheckoutUserFetched(@, db, users)]
  /\ UNCHANGED <<workload, active, posts, users, stripe, now, probe, process>>

\* stripe.customers.create has settled; the customer id is kept in stamp
createCheckoutSessionCustomer(r) ==
  /\ At(r, "checkout", "customer")
  /\ \E ok \in BOOLEAN :
       IF ok
       THEN /\ Len(stripe.customers) < MaxStripe
            /\ stripe' = [stripe EXCEPT !.customers = Append(@, reqs[r].body.userId)]
            /\ reqs' = [reqs EXCEPT ![r] =
                          [PaySettled(@, ok) EXCEPT !.stamp = Len(stripe.customers) + 1,
                                                    !.pc = "store"]]
       ELSE /\ stripe' = stripe
            /\ reqs' = [reqs EXCEPT ![r] = CheckoutCatch(PaySettled(@, ok))]
  /\ UNCHANGED <<workload, active, posts, users, now, probe, process>>

\* rpc('update_user_stripe_customer') has settled
createCheckoutSessionStore(r) ==
  /\ At(r, "checkout", "store")
  /\ \E db \in DbOutcomes :
       IF db = "ok"
       THEN /\ users' = [users EXCEPT ![reqs[r].body.userId].stripe_customer_id = reqs[r].stamp]
            /\ reqs' = [reqs EXCEPT ![r] = [DbSettled(@, db) EXCEPT !.pc = "session"]]
       ELSE /\ users' = users
            /\ reqs' = [reqs EXCEPT ![r] =
                          Respond(DbSettled(@, db),
                                  ErrorResponse(500, [error |-> "Error updating user"]))]
  /\ UNCHANGED <<workload, active, posts, stripe, now, probe, process>>

\* sessions.create sent with an idempotency key made of the customer: a
\* second call for the customer returns the session of the first
createCheckoutSessionSessionKeyed(r) ==
  /\ At(r, "checkout", "session")
  /\ \E ok \in BOOLEAN :
       IF ok
       THEN LET held == {n \in 1..Len(stripe.sessions) : stripe.sessions[n] = reqs[r].stamp}
            IN  IF held = {}
                THEN /\ Len(stripe.sessions) < MaxStripe
                     /\ stripe' = [stripe EXCEPT !.sessions = Append(@, reqs[r].stamp)]
                     /\ reqs' = [reqs EXCEPT ![r] =
                                   Respond(PaySettled(@, ok),
                                           JsonResponse("url", [url |-> Len(stripe.sessions) + 1]))]
                ELSE /\ stripe' = stripe
                     /\ reqs' = [reqs EXCEPT ![r] =
                                   Respond(PaySettled(@, ok),
                                           JsonResponse("url", [url |-> CHOOSE n \in held : TRUE]))]
       ELSE /\ stripe' = stripe
            /\ reqs' = [reqs EXCEPT ![r] = CheckoutCatch(PaySettled(@, ok))]
  /\ UNCHANGED <<workload, active, posts, users, now, probe, process>>

\* stripe.checkout.sessions.create has settled
createCheckoutSessionSession(r) ==
  /\ At(r, "checkout", "session")
  /\ \E ok \in BOOLEAN :
       IF ok
       THEN /\ Len(stripe.sessions) < MaxStripe
            /\ stripe' = [stripe EXCEPT !.sessions = Append(@, reqs[r].stamp)]
            /\ reqs' = [reqs EXCEPT ![r] =
                          Respond(PaySettled(@, ok),
                                  JsonResponse("url", [url |-> Len(stripe.sessions) + 1]))]
       ELSE /\ stripe' = stripe
            /\ reqs' = [reqs EXCEPT ![r] = CheckoutCatch(PaySettled(@, ok))]
  /\ UNCHANGED <<workload, active, posts, users, now, probe, process>>

\* ------------------------------------------------------------------------
\* Billing: handleStripeWebhook (POST /api/webhook)
\* ------------------------------------------------------------------------
SubscriptionEvents ==
  {"customer.subscription.created", "customer.subscription.updated",
   "customer.subscription.deleted"}

\* customer 0 is a customer of the account that carries no metadata.userId
WebhookBodies ==
  [signed : BOOLEAN, type : SubscriptionEvents \cup {"invoice.paid"},
   customer : 0..MaxStripe, subscription : {"sub_1", "sub_2"},
   status : {"active", "past_due"}, current_period_end : {1, 2}]

\* the event is taken from the body with no check of its signature
WebhookStartUnverified(q) ==
  IF q.body.type \in SubscriptionEvents THEN [q EXCEPT !.pc = "retrieve"]
  ELSE Respond(q, JsonResponse("received", [received |-> TRUE]))

WebhookStart(q) ==
  IF ~q.body.signed THEN Respond(q, TextResponse(400, "Webhook Error: "))
  ELSE IF q.body.type \in SubscriptionEvents THEN [q EXCEPT !.pc = "retrieve"]
  ELSE Respond(q, JsonResponse("received", [received |-> TRUE]))

WebhookCatch(q) ==
  Respond(q, ErrorResponse(500, [error |-> "Webhook processing failed"]))

\* customer.metadata.userId of the retrieved customer
MetadataUserId(customers, c) ==
  IF c \in 1..Len(customers) THEN customers[c] ELSE Undefined

\* stripe.customers.retrieve has settled; it throws, or gives a customer
\* whose metadata is read
WebhookRetrieved(q, ok, customers) ==
  LET s == PaySettled(q, ok)
  IN  IF ~ok THEN WebhookCatch(s)
      ELSE IF Falsy(MetadataUserId(customers, q.body.customer))
        THEN Respond(s, ErrorResponse(400, [error |-> "No userId found"]))
      ELSE [s EXCEPT !.pc = "subscription"]

\* new Date(seconds * 1000).toISOString()
IsoSeconds(seconds) ==
  IF seconds = 1 THEN "1970-01-01T00:00:01.000Z" ELSE "1970-01-01T00:00:02.000Z"

\* every event is answered as a deletion is
SubscriptionArgsInactive(body) ==
  [subscription_id |-> "null", status |-> "inactive", period_end |-> "null"]

\* the arguments of rpc('update_user_subscription')
SubscriptionArgs(body) ==
  IF body.type = "customer.subscription.deleted"
  THEN [subscription_id |-> "null", status |-> "inactive", period_end |-> "null"]
  ELSE [subscription_id |-> body.subscription, status |-> body.status,
        period_end |-> IsoSeconds(body.current_period_end)]

UpdateUserSubscription(table, userId, args) ==
  IF userId \in DOMAIN table
  THEN [table EXCEPT ![userId].subscription_id = args.subscription_id,
                     ![userId].subscription_status = args.status,
                     ![userId].period_end = args.period_end]
  ELSE table

handleStripeWebhook(r) ==
  /\ Free(r, "webhook")
  /\ \E body \in WebhookBodies :
       reqs' = [reqs EXCEPT ![r] = WebhookStart(NewReq("webhook", 0, body))]
  /\ UNCHANGED <<workload, active, posts, users, stripe, now, probe, process>>

handleStripeWebhookRetrieve(r) ==
  /\ At(r, "webhook", "retrieve")
  /\ \E ok \in BOOLEAN :
       reqs' = [reqs EXCEPT ![r] = WebhookRetrieved(@, ok, stripe.customers)]
  /\ UNCHANGED <<workload, active, posts, users, stripe, now, probe, process>>

handleStripeWebhookSubscription(r) ==
  /\ At(r, "webhook", "subscription")
  /\ \E db \in DbOutcomes :
       IF db = "ok"
       THEN /\ users' = UpdateUserSubscription(users,
                          MetadataUserId(stripe.customers, reqs[r].body.customer),
                          SubscriptionArgs(reqs[r].body))
            /\ reqs' = [reqs EXCEPT ![r] =
                          Respond(DbSettled(@, db), JsonResponse("received", [received |-> TRUE]))]
       ELSE /\ users' = users
            /\ reqs' = [reqs EXCEPT ![r] =
                          Respond(DbSettled(@, db),
                                  ErrorResponse(500, [error |-> "Error updating subscription status"]))]
  /\ UNCHANGED <<workload, active, posts, stripe, now, probe, process>>

\* ------------------------------------------------------------------------
\* The server
\* ------------------------------------------------------------------------
NoProbe == [pc |-> "none"]

StageRoutes == {"structure", "facts", "article", "verify", "polish", "html"}
PostsRoutes == {"posts.create", "posts.list", "posts.get"}
ArtifactRoutes == {"posts.create", "posts.get", "posts.social", "posts.email"}
BillingRoutes == {"checkout", "webhook"}

\* ------------------------------------------------------------------------
\* Startup: the module is evaluated from top to bottom, then the process
\* serves requests.  process.code is the exit code once pc = "exited".
\* ------------------------------------------------------------------------
EnvValues == {Undefined, "", "k"}

\* process.env.GOOGLE_API_KEY || process.env.GEMINI_API_KEY
ApiKey(p) ==
  IF ~Falsy(p.GOOGLE_API_KEY) THEN p.GOOGLE_API_KEY ELSE p.GEMINI_API_KEY

\* the process after app.listen
Listening ==
  [pc |-> "listening", GOOGLE_API_KEY |-> "k", GEMINI_API_KEY |-> Undefined,
   code |-> 0]

\* a missing key is logged and the evaluation goes on to app.listen
BootLogsOnly(p) == [p EXCEPT !.pc = "listening"]

\* the key is checked: process.exit(1), or the evaluation reaches app.listen
Boot(p) ==
  IF Falsy(ApiKey(p)) THEN [p EXCEPT !.pc = "exited", !.code = 1]
  ELSE [p EXCEPT !.pc = "listening"]

Startup ==
  /\ process.pc = "boot"
  /\ process' = Boot(process)
  /\ active' = IF process'.pc = "listening" THEN {"r1"} ELSE {}
  /\ UNCHANGED <<workload, reqs, posts, users, stripe, now, probe>>

\* The groups of routes: the stage routes keep no state, the posts routes
\* store and read blog_posts, the artifact routes write the social and
\* email columns of stored posts, billing uses users and the payment
\* provider.  The clients of one behaviour call the routes of one group.
Init ==
  /\ workload \in {StageRoutes, PostsRoutes, ArtifactRoutes, BillingRoutes}
  /\ active = {"r1"}
  /\ reqs = [r \in Slots |-> IdleReq]
  /\ posts = <<>>
  /\ users = [u \in KnownUsers |->
               [stripe_customer_id |-> NoCustomer, subscription_id |-> "null",
                subscription_status |-> "null", period_end |-> "null"]]
  /\ stripe = [customers |-> <<>>, sessions |-> <<>>]
  /\ now = 1
  /\ probe = NoProbe
  /\ process = Listening

StageNext ==
  \E r \in Slots :
    \/ GenerateStructure(r) \/ GenerateStructureReply(r)
    \/ GenerateFacts(r) \/ GenerateFactsReply(r)
    \/ GenerateArticle(r) \/ GenerateArticleReply(r)
    \/ GenerateVerify(r) \/ GenerateVerifyReply(r)
    \/ GeneratePolish(r) \/ GeneratePolishReply(r)
    \/ GenerateHtml(r) \/ GenerateHtmlReply(r)

PostsNext ==
  \E r \in Slots :
    \/ PostsCreate(r) \/ PostsCreateReply(r)
    \/ PostsList(r) \/ PostsListReply(r)
    \/ PostsGet(r) \/ PostsGetReply(r)
    \/ PostsSocial(r) \/ PostsSocialReply(r)
    \/ PostsSocialSelect(r) \/ PostsSocialUpdate(r)
    \/ PostsEmailCampaign(r) \/ PostsEmailCampaignReply(r)
    \/ PostsEmailCampaignUpdate(r)

BillingNext ==
  \E r \in Slots :
    \/ createCheckoutSession(r) \/ createCheckoutSessionUser(r)
    \/ createCheckoutSessionCustomer(r) \/ createCheckoutSessionStore(r)
    \/ createCheckoutSessionSession(r)
    \/ handleStripeWebhook(r) \/ handleStripeWebhookRetrieve(r)
    \/ handleStripeWebhookSubscription(r)

ReleaseNext == \E r \in Slots : Release(r)

Next == StageNext \/ PostsNext \/ BillingNext \/ ReleaseNext

Spec == Init /\ [][Next]_vars


SpecClock == Init /\ [][Next \/ Tick]_vars

\* ------------------------------------------------------------------------
\* Two requests in flight at once on a stored post.  Node runs one handler
\* at a time and switches between them at every await.
\* ------------------------------------------------------------------------
StoredPost ==
  InsertedRow(1, PostRecord(CHOOSE body \in PostBodies :
                              body.structure = StructureValue /\ body.facts = FactsValue, 1))

InitRace ==
  /\ workload \in {{"posts.social"}, {"posts.email"}}
  /\ active = Slots
  /\ reqs = [r \in Slots |-> IdleReq]
  /\ posts = <<StoredPost>>
  /\ users = [u \in KnownUsers |->
               [stripe_customer_id |-> NoCustomer, subscription_id |-> "null",
                subscription_status |-> "null", period_end |-> "null"]]
  /\ stripe = [customers |-> <<>>, sessions |-> <<>>]
  /\ now = 1
  /\ probe = NoProbe
  /\ process = Listening

RaceNext ==
  \E r \in Slots :
    \/ PostsSocial(r) \/ PostsSocialReply(r)
    \/ PostsSocialSelect(r) \/ PostsSocialUpdate(r)
    \/ PostsEmailCampaign(r) \/ PostsEmailCampaignReply(r)
    \/ PostsEmailCampaignUpdate(r)
    \/ Release(r)

SpecRace == InitRace /\ [][RaceNext]_vars

\* ------------------------------------------------------------------------
\* Saving and listing posts while the clock runs, two requests at a time.
\* ------------------------------------------------------------------------
ListRoutes == {"posts.create", "posts.list"}

InitList ==
  /\ workload = ListRoutes
  /\ active = Slots
  /\ reqs = [r \in Slots |-> IdleReq]
  /\ posts = <<>>
  /\ users = [u \in KnownUsers |->
               [stripe_customer_id |-> NoCustomer, subscription_id |-> "null",
                subscription_status |-> "null", period_end |-> "null"]]
  /\ stripe = [customers |-> <<>>, sessions |-> <<>>]
  /\ now = 1
  /\ probe = NoProbe
  /\ process = Listening

ListNext ==
  \/ \E r \in Slots :
       \/ PostsCreate(r) \/ PostsCreateReply(r)
       \/ PostsList(r) \/ PostsListReply(r)
       \/ Release(r)
  \/ Tick

SpecList == InitList /\ [][ListNext]_vars

\* ------------------------------------------------------------------------
\* The stage routes called two at a time while posts are being saved.
\* ------------------------------------------------------------------------
InitStage ==
  /\ workload = StageRoutes \cup {"posts.create"}
  /\ active = Slots
  /\ reqs = [r \in Slots |-> IdleReq]
  /\ posts = <<>>
  /\ users = [u \in KnownUsers |->
               [stripe_customer_id |-> NoCustomer, subscription_id |-> "null",
                subscription_status |-> "null", period_end |-> "null"]]
  /\ stripe = [customers |-> <<>>, sessions |-> <<>>]
  /\ now = 1
  /\ probe = NoProbe
  /\ process = Listening

StageSaveNext ==
  \/ StageNext
  \/ \E r \in Slots : PostsCreate(r) \/ PostsCreateReply(r) \/ Release(r)

SpecStage == InitStage /\ [][StageSaveNext]_vars

\* ------------------------------------------------------------------------
\* Submissions sent twice: posts are saved and checkout sessions are asked
\* for, two requests at a time.
\* ------------------------------------------------------------------------
SubmitRoutes == {"posts.create", "checkout"}

InitSubmit ==
  /\ workload = SubmitRoutes
  /\ active = Slots
  /\ reqs = [r \in Slots |-> IdleReq]
  /\ posts = <<>>
  /\ users = [u \in KnownUsers |->
               [stripe_customer_id |-> NoCustomer, subscription_id |-> "null",
                subscription_status |-> "null", period_end |-> "null"]]
  /\ stripe = [customers |-> <<>>, sessions |-> <<>>]
  /\ now = 1
  /\ probe = NoProbe
  /\ process = Listening

SubmitNext ==
  \E r \in Slots :
    \/ PostsCreate(r) \/ PostsCreateReply(r)
    \/ createCheckoutSession(r) \/ createCheckoutSessionUser(r)
    \/ createCheckoutSessionCustomer(r) \/ createCheckoutSessionStore(r)
    \/ createCheckoutSessionSession(r)
    \/ Release(r)

SpecSubmit == InitSubmit /\ [][SubmitNext]_vars

\* ------------------------------------------------------------------------
\* Every handler served to its end: the clients call the stage routes, save
\* and read posts, ask for the artifacts of a stored post, or use billing;
\* every awaited call settles and Node runs the continuation.
\* ------------------------------------------------------------------------
InitServe ==
  /\ \/ workload \in {StageRoutes, PostsRoutes, BillingRoutes} /\ posts = <<>>
     \/ workload = {"posts.social", "posts.email"} /\ posts = <<StoredPost>>
  /\ active = {"r1"}
  /\ reqs = [r \in Slots |-> IdleReq]
  /\ users = [u \in KnownUsers |->
               [stripe_customer_id |-> NoCustomer, subscription_id |-> "null",
                subscription_status |-> "null", period_end |-> "null"]]
  /\ stripe = [customers |-> <<>>, sessions |-> <<>>]
  /\ now = 1
  /\ probe = NoProbe
  /\ process = Listening

SpecServe == InitServe /\ [][Next]_vars /\ WF_vars(Next)

\* ------------------------------------------------------------------------
\* Billing on its own, one request after another.
\* ------------------------------------------------------------------------
InitBilling ==
  /\ workload = BillingRoutes
  /\ active = {"r1"}
  /\ reqs = [r \in Slots |-> IdleReq]
  /\ posts = <<>>
  /\ users = [u \in KnownUsers |->
               [stripe_customer_id |-> NoCustomer, subscription_id |-> "null",
                subscription_status |-> "null", period_end |-> "null"]]
  /\ stripe = [customers |-> <<>>, sessions |-> <<>>]
  /\ now = 1
  /\ probe = NoProbe
  /\ process = Listening

SpecBilling == InitBilling /\ [][BillingNext \/ ReleaseNext]_vars

\* ------------------------------------------------------------------------
\* The process from its start: the environment holds any keys, and the
\* stage routes are called once the process listens.  Node evaluates the
\* module to its end without waiting, so Startup is taken.
\* ------------------------------------------------------------------------
InitStartup ==
  /\ workload = StageRoutes
  /\ active = {}
  /\ reqs = [r \in Slots |-> IdleReq]
  /\ posts = <<>>
  /\ users = [u \in KnownUsers |->
               [stripe_customer_id |-> NoCustomer, subscription_id |-> "null",
                subscription_status |-> "null", period_end |-> "null"]]
  /\ stripe = [customers |-> <<>>, sessions |-> <<>>]
  /\ now = 1
  /\ probe = NoProbe
  /\ process \in [pc : {"boot"}, GOOGLE_API_KEY : EnvValues,
                  GEMINI_API_KEY : EnvValues, code : {0}]

StartupNext == Startup \/ StageNext \/ ReleaseNext

SpecStartup == InitStartup /\ [][StartupNext]_vars /\ WF_vars(Startup)

\* ------------------------------------------------------------------------
\* The text operations on their own: a reply text is cleaned and parsed as
\* the routes do it, bare and inside each form of Markdown fence.
\* ------------------------------------------------------------------------
GenChars == {QT, BT, "1", "[", "]"}
GenTexts == UNION {[1..n -> GenChars] : n \in 0..MaxGenLen}
ProbeTexts ==
  GenTexts \cup {TxtObj, TxtProse, TxtDollar, TxtDollarEscaped, TxtRawNewline,
                 TxtTicks, TxtCampaign, <<" ", "1", NL>>}

\* the opening and closing lines of a fenced code block
FenceOpens == {FenceJson, Fence \o <<NL>>}
FenceCloses == {<<NL>> \o Fence, Fence, <<NL>> \o Fence \o <<NL>>}
Fencings == [open : FenceOpens, close : FenceCloses]
Fenced(f, t) == f.open \o t \o f.close

\* the cleaning and parsing of a reply: "strip" in the structure, verify and
\* email-campaign routes, "facts" in the facts route
Unwrap(kind, text) ==
  IF kind = "facts" THEN JSONParse(CleanFacts(text)) ELSE JSONParse(StripFences(text))

InitUnwrap ==
  /\ workload = {}
  /\ active = {}
  /\ reqs = [r \in Slots |-> IdleReq]
  /\ posts = <<>>
  /\ users = [u \in KnownUsers |->
               [stripe_customer_id |-> NoCustomer, subscription_id |-> "null",
                subscription_status |-> "null", period_end |-> "null"]]
  /\ stripe = [customers |-> <<>>, sessions |-> <<>>]
  /\ now = 1
  /\ \E kind \in {"strip", "facts"}, text \in ProbeTexts :
       probe = [pc |-> "text", kind |-> kind, text |-> text]
  /\ process = Listening

UnwrapProbe ==
  /\ probe.pc = "text"
  /\ probe' = [pc |-> "done", kind |-> probe.kind, text |-> probe.text,
               bare |-> Unwrap(probe.kind, probe.text),
               fenced |-> [f \in Fencings |-> Unwrap(probe.kind, Fenced(f, probe.text))]]
  /\ UNCHANGED <<workload, active, reqs, posts, users, stripe, now, process>>

SpecUnwrap == InitUnwrap /\ [][UnwrapProbe]_vars

\* ------------------------------------------------------------------------
\* Properties
\* ------------------------------------------------------------------------
Done(r) == reqs[r].pc = "done"
Resp(r) == reqs[r].resps[1]
IsError(resp) == resp.type = "json" /\ resp.kind = "error" /\ "error" \in DOMAIN resp.body

\* C1: a structure request whose body lacks titleConcept or company, or
\* whose company lacks company_name, industry or tagline, is answered with
\* status 400 and a JSON body with an error field, and no provider call is
\* made for it.
StructureLacks(body) ==
  \/ body.titleConcept = Undefined
  \/ ~body.company.present
  \/ body.company.company_name = Undefined
  \/ body.company.industry = Undefined
  \/ body.company.tagline = Undefined

C1_StructureRejects ==
  \A r \in Slots :
    (reqs[r].route = "structure" /\ StructureLacks(reqs[r].body))
      => /\ Done(r)
         /\ Len(reqs[r].resps) = 1
         /\ Resp(r).status = 400
         /\ IsError(Resp(r))
         /\ reqs[r].calls = 0

\* a structure request with titleConcept and a company that lacks only its
\* tagline has been answered
C1_Witness ==
  \E r \in Slots :
    /\ reqs[r].route = "structure" /\ Done(r)
    /\ reqs[r].body.titleConcept = "topic"
    /\ reqs[r].body.company.present
    /\ reqs[r].body.company.company_name = "n"
    /\ reqs[r].body.company.industry = "i"
    /\ reqs[r].body.company.tagline = Undefined
    /\ Resp(r).status = 400

\* C2: for a reply text that is valid JSON, cleaning and parsing the text
\* inside a fenced code block (tagged json or untagged) gives the same
\* parsed value as cleaning and parsing the bare text.
C2_FenceTransparent ==
  (probe.pc = "done" /\ JSONParse(probe.text).ok)
    => \A f \in Fencings : probe.fenced[f] = probe.bare

\* a valid JSON text holding backticks has been unwrapped to a value
C2_Witness ==
  /\ probe.pc = "done"
  /\ probe.text = TxtTicks
  /\ probe.bare.ok
  /\ probe.fenced[[open |-> FenceJson, close |-> <<NL>> \o Fence]].ok

\* C3: the body the facts route returns (the parsed mapping on success, the
\* rawText of the error body on a parse failure) never contains the
\* character $ in a key or a value.
C3_NoDollar ==
  \A r \in Slots :
    (reqs[r].route = "facts" /\ Done(r) /\ reqs[r].outcome = "ok")
      => /\ Resp(r).status = 200 => "$" \notin ValueChars(Resp(r).body)
         /\ "rawText" \in DOMAIN Resp(r).body
              => \A n \in 1..Len(Resp(r).body.rawText) : Resp(r).body.rawText[n] # "$"

\* C4: a social request changes only the social-media columns of the row
\* with its id, an email-campaign request only email_drip_campaigns of the
\* row with its id; every other column and every other row stays as it is.
ChangedOnly(old, new, id, cols) ==
  /\ Len(new) = Len(old)
  /\ \A n \in 1..Len(old) : \A c \in Columns :
       new[n][c] # old[n][c] => (n = id /\ c \in cols)

InFlight(r, route) == reqs[r].route = route /\ reqs[r].pc \notin {"idle", "done"}

C4_Step ==
  \A r \in Slots :
    /\ (InFlight(r, "posts.social") /\ reqs'[r].pc # reqs[r].pc)
         => ChangedOnly(posts, posts', reqs[r].id, SocialColumns)
    /\ (InFlight(r, "posts.email") /\ reqs'[r].pc # reqs[r].pc)
         => ChangedOnly(posts, posts', reqs[r].id, EmailColumns)

C4_UpdatesOwnColumns == [][C4_Step]_vars

\* a social request has succeeded on a row that holds an email campaign,
\* with a second row in the table
C4_Witness ==
  \E r \in Slots :
    /\ reqs[r].route = "posts.social" /\ Done(r) /\ Resp(r).status = 200
    /\ Len(posts) = 2
    /\ posts[reqs[r].id].email_drip_campaigns # JNull
    /\ posts[reqs[r].id].instagram_post_content # JNull

\* C5: GET /api/posts/:id with an id that matches no row answers status 500
\* with an error field and never a row; with an id that matches a row, and
\* the datastore answering, it returns that row.
C5_GetById ==
  \A r \in Slots :
    (reqs[r].route = "posts.get" /\ Done(r))
      => /\ ~RowExists(posts, reqs[r].id)
              => (Resp(r).status = 500 /\ IsError(Resp(r)))
         /\ (RowExists(posts, reqs[r].id) /\ reqs[r].db = "ok")
              => (Resp(r).status = 200 /\ Resp(r).kind = "row"
                    /\ Resp(r).body = posts[reqs[r].id])
         /\ Resp(r).status = 200 => RowExists(posts, reqs[r].id)

\* a fetch of an id beyond a table of one row has been answered, the
\* datastore having answered the select
C5_Witness ==
  \E r \in Slots :
    /\ reqs[r].route = "posts.get" /\ Done(r)
    /\ Len(posts) = 1 /\ reqs[r].id = 2 /\ reqs[r].db = "ok"
    /\ Resp(r).status = 500

\* C6: a social request that reached the provider ends with status 500
\* whenever its post id matches no row or the reply does not parse; it calls
\* the provider at most once and answers once; it returns the social-channel
\* object only when the reply parsed and the row exists.
C6_SocialFails ==
  \A r \in Slots :
    (reqs[r].route = "posts.social" /\ Done(r))
      => /\ reqs[r].calls <= 1 /\ Len(reqs[r].resps) = 1
         /\ (reqs[r].calls = 1
               /\ (\/ ~RowExists(posts, reqs[r].id)
                   \/ (reqs[r].outcome = "ok" /\ ~JSONParse(Trim(reqs[r].reply)).ok)))
              => (Resp(r).status = 500 /\ IsError(Resp(r)))
         /\ ~RowExists(posts, reqs[r].id) => Resp(r).status # 200
         /\ Resp(r).status = 200
              => /\ reqs[r].outcome = "ok"
                 /\ JSONParse(Trim(reqs[r].reply)).ok
                 /\ Resp(r).body = JSONParse(Trim(reqs[r].reply)).val
                 /\ RowExists(posts, reqs[r].id)

\* a social request whose reply parsed has failed on a missing post
C6_Witness ==
  \E r \in Slots :
    /\ reqs[r].route = "posts.social" /\ Done(r)
    /\ reqs[r].outcome = "ok" /\ reqs[r].reply = TxtSocial
    /\ reqs[r].db = "ok" /\ ~RowExists(posts, reqs[r].id)
    /\ Resp(r).status = 500

\* C7: an email-campaign request with an id that matches no row is answered
\* with status 500 and an error message, never with a success response.
C7_MissingPostIs500 ==
  \A r \in Slots :
    (reqs[r].route = "posts.email" /\ Done(r) /\ ~RowExists(posts, reqs[r].id))
      => /\ Resp(r).status # 200
         /\ reqs[r].calls = 1 => (Resp(r).status = 500 /\ IsError(Resp(r)))

\* C8: in the structure route, a reply that does not parse after the fences
\* are stripped is answered with status 500 and an error body whose details
\* is the stripped text, after one provider call.
C8_StructureParseFailure ==
  \A r \in Slots :
    (reqs[r].route = "structure" /\ Done(r) /\ reqs[r].outcome = "ok"
       /\ ~JSONParse(StripFences(reqs[r].reply)).ok)
      => /\ Resp(r).status = 500
         /\ IsError(Resp(r))
         /\ "details" \in DOMAIN Resp(r).body
         /\ Resp(r).body.details = StripFences(reqs[r].reply)
         /\ reqs[r].calls = 1 /\ Len(reqs[r].resps) = 1

\* the structure route has answered a fenced reply that is not JSON
C8_Witness ==
  \E r \in Slots :
    /\ reqs[r].route = "structure" /\ Done(r)
    /\ reqs[r].reply = WrapJson(TxtProse)
    /\ Resp(r).status = 500
    /\ Resp(r).body.details = TxtProse

\* C9: in every route that parses a reply as JSON, a reply that
\* is not JSON after cleaning is answered with status 500 and the text is
\* attached to the body.
JsonRoutes == {"structure", "facts", "verify", "posts.social", "posts.email"}

\* the cleaning each route applies before JSON.parse
Cleaned(route, text) ==
  CASE route = "facts" -> CleanFacts(text)
    [] route = "posts.social" -> Trim(text)
    [] OTHER -> StripFences(text)

Unparsed(r) ==
  /\ reqs[r].route \in JsonRoutes /\ Done(r) /\ reqs[r].outcome = "ok"
  /\ ~JSONParse(Cleaned(reqs[r].route, reqs[r].reply)).ok
  /\ ~JSONParse(StripFences(reqs[r].reply)).ok

TextAttached(r) ==
  \E k \in DOMAIN Resp(r).body \cap {"details", "rawText"} :
    Resp(r).body[k] \in {reqs[r].reply, Cleaned(reqs[r].route, reqs[r].reply)}

C9_RawTextAttached ==
  \A r \in Slots : Unparsed(r) => (Resp(r).status = 500 /\ TextAttached(r))

\* C9, what the handlers do: such a reply is answered with status 500; the
\* cleaned text is attached by structure and verify (details) and by facts
\* (rawText); the social body holds only the error message, the
\* email-campaign body the error message and the message of the parse error.
C9_ParseFailure ==
  \A r \in Slots :
    (reqs[r].route \in JsonRoutes /\ Done(r) /\ reqs[r].outcome = "ok"
       /\ ~JSONParse(Cleaned(reqs[r].route, reqs[r].reply)).ok)
      => /\ Resp(r).status = 500 /\ IsError(Resp(r))
         /\ reqs[r].route \in {"structure", "verify"}
              => (DOMAIN Resp(r).body = {"error", "details"}
                    /\ Resp(r).body.details = StripFences(reqs[r].reply))
         /\ reqs[r].route = "facts"
              => (DOMAIN Resp(r).body = {"error", "details", "rawText"}
                    /\ Resp(r).body.rawText = CleanFacts(reqs[r].reply))
         /\ reqs[r].route = "posts.social" => DOMAIN Resp(r).body = {"error"}
         /\ reqs[r].route = "posts.email"
              => (DOMAIN Resp(r).body = {"error", "details"}
                    /\ Resp(r).body.details = ParseErrorMessage)

\* C10: an error response has status 400 when the request input
\* is missing or invalid and 500 when a downstream call or a parse fails,
\* and no other status; its body is JSON with an error string, the webhook
\* signature failure alone being plain text.
InputMissing(q) ==
  CASE q.route = "structure" ->
         \/ Falsy(q.body.titleConcept) \/ ~q.body.company.present
         \/ Falsy(q.body.company.company_name) \/ Falsy(q.body.company.industry)
         \/ Falsy(q.body.company.tagline)
    [] q.route = "facts" ->
         q.body.questions.kind # "array" \/ Len(q.body.questions.items) = 0
    [] q.route = "article" -> ~q.body.company.present
    [] q.route = "verify" -> Falsy(q.body.draft)
    [] q.route = "html" -> ~q.body.metadata.present \/ ~q.body.metadata.hasKeywords
    [] q.route \in {"posts.social", "posts.email"} -> Falsy(q.body.content)
    [] q.route = "checkout" -> Falsy(q.body.priceId) \/ Falsy(q.body.userId)
    [] q.route = "webhook" -> ~q.body.signed
    [] OTHER -> FALSE

BodyShape(q) ==
  \/ IsError(q.resps[1])
  \/ (q.route = "webhook" /\ ~q.body.signed /\ q.resps[1].type = "text")

C10_Only400And500 ==
  \A r \in Slots :
    (Done(r) /\ Resp(r).status # 200)
      => /\ Resp(r).status \in {400, 500}
         /\ Resp(r).status = 400 <=> InputMissing(reqs[r])
         /\ BodyShape(reqs[r])

\* C10, what the handlers do: an error response has status 400, 404 or 500.  404 answers
\* a checkout whose user lookup finds no user.  400 answers the input checks
\* the handlers make (structure fields, verify draft, social and
\* email-campaign content, checkout fields, webhook signature and customer
\* userId) and a checkout whose user lookup fails.  Everything else is 500,
\* missing input that no check catches included (article company, html
\* metadata, facts questions).  The body is as stated.
Answers400(q) ==
  CASE q.route \in {"structure", "verify", "posts.social", "posts.email"} ->
         InputMissing(q)
    [] q.route = "checkout" -> InputMissing(q) \/ (q.at = "user" /\ q.db = "error")
    [] q.route = "webhook" -> InputMissing(q) \/ (q.at = "retrieve" /\ q.pay = "ok")
    [] OTHER -> FALSE

Answers404(q) == q.route = "checkout" /\ q.at = "user" /\ q.db = "ok"

C10_ErrorStatuses ==
  \A r \in Slots :
    (Done(r) /\ Resp(r).status # 200)
      => /\ Resp(r).status \in {400, 404, 500}
         /\ Resp(r).status = 400 <=> Answers400(reqs[r])
         /\ Resp(r).status = 404 <=> Answers404(reqs[r])
         /\ BodyShape(reqs[r])

\* C11: a stage request never makes a second provider call; when it has
\* ended it has made no call if its input stopped it before the call and
\* exactly one call otherwise; a provider failure or a parse failure ends it
\* with one error response.
ParsingStages == {"structure", "facts", "verify"}

C11_OneProviderCall ==
  \A r \in Slots :
    reqs[r].route \in StageRoutes
      => /\ reqs[r].calls <= 1
         /\ Done(r)
              => /\ reqs[r].calls = (IF InputMissing(reqs[r]) THEN 0 ELSE 1)
                 /\ Len(reqs[r].resps) = 1
                 /\ (\/ reqs[r].outcome = "throw"
                     \/ (/\ reqs[r].route \in ParsingStages
                         /\ reqs[r].outcome = "ok"
                         /\ ~JSONParse(Cleaned(reqs[r].route, reqs[r].reply)).ok))
                      => (Resp(r).status = 500 /\ IsError(Resp(r)))

\* a verify request has ended in an error after its one provider call failed
C11_Witness ==
  \E r \in Slots :
    /\ reqs[r].route = "verify" /\ Done(r)
    /\ reqs[r].outcome = "throw" /\ reqs[r].calls = 1
    /\ Resp(r).status = 500

\* C12: when two social requests, or two email-campaign requests, for the
\* same stored post have both succeeded, the row holds in every column of
\* that route the values of one of the two requests, and never some columns
\* of one and some of the other.
Written(q) ==
  IF q.route = "posts.social" THEN SocialPayload(q.parsed, q.stamp)
  ELSE [email_drip_campaigns |-> q.parsed]

RouteColumns(route) == IF route = "posts.social" THEN SocialColumns ELSE EmailColumns

Succeeded(r, route) ==
  reqs[r].route = route /\ Done(r) /\ Resp(r).status = 200

C12_LastWriterWins ==
  \A route \in {"posts.social", "posts.email"} :
    (/\ Succeeded("r1", route) /\ Succeeded("r2", route)
     /\ reqs["r1"].id = reqs["r2"].id /\ RowExists(posts, reqs["r1"].id))
      => \E r \in Slots :
           \A c \in RouteColumns(route) :
             posts[reqs[r].id][c] = NullIfUndefined(Written(reqs[r])[c])

\* C12, the email-campaign half, which holds: after two email-campaign
\* requests for the same post have succeeded, email_drip_campaigns is the
\* campaign of one of them.
C12_EmailLastWriter ==
  (/\ Succeeded("r1", "posts.email") /\ Succeeded("r2", "posts.email")
   /\ reqs["r1"].id = reqs["r2"].id /\ RowExists(posts, reqs["r1"].id))
    => \E r \in Slots : posts[reqs[r].id].email_drip_campaigns = reqs[r].parsed

\* C13: a facts request whose questions is missing, not an array, or an
\* empty array is answered with status 400 and an error body, and no
\* provider call is made.
C13_FactsRejects ==
  \A r \in Slots :
    (reqs[r].route = "facts" /\ Done(r) /\ InputMissing(reqs[r]))
      => /\ Resp(r).status = 400
         /\ IsError(Resp(r))
         /\ reqs[r].calls = 0

\* C14: a verify request whose draft is missing or empty is answered with
\* status 400 and an error body, and no provider call is made.
C14_VerifyRejects ==
  \A r \in Slots :
    (reqs[r].route = "verify" /\ Falsy(reqs[r].body.draft))
      => /\ Done(r) /\ Len(reqs[r].resps) = 1
         /\ Resp(r).status = 400
         /\ IsError(Resp(r))
         /\ reqs[r].calls = 0

\* a verify request with an empty draft has been answered
C14_Witness ==
  \E r \in Slots :
    /\ reqs[r].route = "verify" /\ Done(r)
    /\ reqs[r].body.draft = ""
    /\ Resp(r).status = 400

\* C15: the step that ends a POST /api/posts either appends exactly one row
\* that carries the submitted ids and artifacts and a metadata object made
\* of them (title, keywords, sections, research_questions of the structure,
\* and the facts, an empty list or object standing for what is absent) and
\* returns that row, or, when the insert fails, answers a generic 500 and
\* leaves the table as it was.
Submitted == {"user_id", "company_id", "title_concept", "structure", "facts",
              "article", "polished", "final_html"}

\* member k of the submitted structure, or the default
Derived(structure, k, default) ==
  IF HasKey(structure, k) THEN GetKey(structure, k) ELSE default

MetadataOf(md, body) ==
  /\ md.t = "obj"
  /\ HasKey(body.structure, K_title)
       => (HasKey(md, K_title) /\ GetKey(md, K_title) = GetKey(body.structure, K_title))
  /\ HasKey(md, K_keywords)
  /\ GetKey(md, K_keywords) = Derived(body.structure, K_keywords, JArr(<<>>))
  /\ HasKey(md, K_sections)
  /\ GetKey(md, K_sections) = Derived(body.structure, K_sections, JArr(<<>>))
  /\ HasKey(md, K_research_questions)
  /\ GetKey(md, K_research_questions)
       = Derived(body.structure, K_research_questions, JObj(<<>>))
  /\ HasKey(md, K_facts)
  /\ GetKey(md, K_facts) = (IF body.facts = JUndef THEN JObj(<<>>) ELSE body.facts)

C15_Step ==
  \A r \in Slots :
    (reqs[r].route = "posts.create" /\ reqs[r].pc = "insert" /\ reqs'[r].pc = "done")
      => LET body == reqs[r].body
             resp == reqs'[r].resps[1]
         IN  /\ Len(reqs'[r].resps) = 1
             /\ IF reqs'[r].db = "ok"
                  THEN /\ Len(posts') = Len(posts) + 1
                       /\ SubSeq(posts', 1, Len(posts)) = posts
                       /\ \A c \in Submitted :
                            posts'[Len(posts')][c] = NullIfUndefined(body[c])
                       /\ MetadataOf(posts'[Len(posts')].metadata, body)
                       /\ resp.status = 200
                       /\ resp.body = posts'[Len(posts')]
                  ELSE /\ posts' = posts
                       /\ resp.status = 500
                       /\ resp.body = [error |-> "Failed to save blog post"]

C15_CreateInsertsOneRow == [][C15_Step]_vars

\* a post without structure and facts has been stored and returned with
\* the default members in its metadata
C15_Witness ==
  \E r \in Slots :
    /\ reqs[r].route = "posts.create" /\ Done(r) /\ Resp(r).status = 200
    /\ reqs[r].body.structure = JUndef /\ reqs[r].body.facts = JUndef
    /\ Len(posts) = 2
    /\ GetKey(Resp(r).body.metadata, K_keywords) = JArr(<<>>)
    /\ GetKey(Resp(r).body.metadata, K_facts) = JObj(<<>>)

\* C16: no step of any route deletes a stored post or changes, after its
\* creation, its id, user_id, company_id, title_concept, structure, facts,
\* article, polished, final_html, metadata or created_at; the ids in the
\* table only grow, and a row is added only by the step that ends a
\* POST /api/posts, one row with a new id at a time.
Ids(table) == {table[n].id : n \in 1..Len(table)}

C16_Step ==
  /\ Len(posts') >= Len(posts)
  /\ Ids(posts) \subseteq Ids(posts')
  /\ \A n \in 1..Len(posts) : \A c \in ArtifactColumns : posts'[n][c] = posts[n][c]
  /\ Len(posts') > Len(posts)
       => /\ Len(posts') = Len(posts) + 1
          /\ posts'[Len(posts')].id \notin Ids(posts)
          /\ \E r \in Slots :
               /\ reqs[r].route = "posts.create" /\ reqs[r].pc = "insert"
               /\ reqs'[r].pc = "done" /\ reqs'[r].resps[1].status = 200

C16_NeverDeleted == [][C16_Step]_vars

\* the first of two stored posts has had social posts and an email campaign
\* attached
C16_Witness ==
  /\ Len(posts) = 2
  /\ posts[1].instagram_post_content # JNull
  /\ posts[1].email_drip_campaigns # JNull
  /\ posts[1].created_at # JNull

\* C17: the step that answers GET /api/posts returns every stored post
\* exactly once, and a post saved later comes before every post saved
\* earlier.
ListedAll(rows, table) ==
  /\ Len(rows) = Len(table)
  /\ \A n \in 1..Len(table) :
       Cardinality({m \in 1..Len(rows) : rows[m] = table[n]}) = 1

\* the step of request r that answers the list with the rows selected
Lists(r) ==
  /\ reqs[r].route = "posts.list" /\ reqs[r].pc = "select"
  /\ reqs'[r].pc = "done" /\ reqs'[r].resps[1].status = 200

\* rows are saved in the order of their ids
SavedAt(row) == row.id.v[1]

C17_LaterSavedStep ==
  \A r \in Slots :
    Lists(r)
      => LET rows == reqs'[r].resps[1].body
         IN  /\ ListedAll(rows, posts)
             /\ \A i, j \in 1..Len(rows) :
                  SavedAt(rows[i]) > SavedAt(rows[j]) => i < j

C17_LaterSavedFirst == [][C17_LaterSavedStep]_vars

\* C17 amended: the step that answers GET /api/posts returns every stored
\* post exactly once, and a post with a later created_at comes before every
\* post with an earlier one; posts of equal created_at come in any order.
C17_CreatedStep ==
  \A r \in Slots :
    Lists(r)
      => LET rows == reqs'[r].resps[1].body
         IN  /\ ListedAll(rows, posts)
             /\ \A i, j \in 1..Len(rows) :
                  Stamp(rows[i]) > Stamp(rows[j]) => i < j

C17_ByCreationTime == [][C17_CreatedStep]_vars

\* a list of two posts of different creation times has been returned, the
\* later one first
C17_Witness ==
  \E r \in Slots :
    /\ reqs[r].route = "posts.list" /\ Done(r) /\ Resp(r).status = 200
    /\ Len(Resp(r).body) = 2
    /\ Stamp(Resp(r).body[1]) > Stamp(Resp(r).body[2])

\* C18: no step of a stage request writes the datastore or any other state
\* the server keeps; two stage requests of the same route with the same
\* body make the same number of provider calls and, given the same provider
\* outcome, get the same response, whatever was stored or requested before; and every stage route takes a request
\* whenever a handler is free, whatever came before.
StageStep(r) ==
  /\ reqs'[r].pc # reqs[r].pc
  /\ reqs[r].route \in StageRoutes \/ reqs'[r].route \in StageRoutes

C18_Frame ==
  \A r \in Slots : StageStep(r) => UNCHANGED <<posts, users, stripe, now, process>>

SameRequest(a, b) ==
  /\ reqs[a].route \in StageRoutes /\ reqs[a].route = reqs[b].route
  /\ Done(a) /\ Done(b)
  /\ reqs[a].body = reqs[b].body

SameReply(a, b) ==
  reqs[a].outcome = reqs[b].outcome /\ reqs[a].reply = reqs[b].reply

C18_Function ==
  SameRequest("r1", "r2")
    => /\ reqs["r1"].calls = reqs["r2"].calls
       /\ SameReply("r1", "r2") => reqs["r1"].resps = reqs["r2"].resps

C18_AnyOrder ==
  \A r \in Slots :
    reqs[r].pc = "idle"
      => /\ ENABLED GenerateStructure(r) /\ ENABLED GenerateFacts(r)
         /\ ENABLED GenerateArticle(r) /\ ENABLED GenerateVerify(r)
         /\ ENABLED GeneratePolish(r) /\ ENABLED GenerateHtml(r)

C18_NoPipelineState == [](C18_Function /\ C18_AnyOrder) /\ [][C18_Frame]_vars

\* two polish requests with the same body and reply have been answered, the
\* second after a post was saved, and no structure request is in sight
C18_Witness ==
  /\ SameRequest("r1", "r2") /\ SameReply("r1", "r2")
  /\ reqs["r1"].route = "polish" /\ Resp("r1").status = 200
  /\ Len(posts) = 1

\* C19: every success response to a valid structure request is an object
\* with exactly the keys title, hook, sections, research_questions and
\* keywords, and its sections is a non-empty list.
K_hook == <<"h", "o", "o", "k">>

Keys(val) == {val.v[n].k : n \in 1..Len(val.v)}

C19_StructureKeys ==
  \A r \in Slots :
    (reqs[r].route = "structure" /\ Done(r) /\ ~StructureLacks(reqs[r].body)
       /\ Resp(r).status = 200)
      => /\ Resp(r).body.t = "obj"
         /\ Keys(Resp(r).body) = {K_title, K_hook, K_sections, K_research_questions, K_keywords}
         /\ GetKey(Resp(r).body, K_sections).t = "arr"
         /\ Len(GetKey(Resp(r).body, K_sections).v) > 0

\* C20: every success response of the polish route has a content that
\* holds an analysis section and a polished-post section, whatever text the
\* provider returned.
Section(text, tag) ==
  LET open == IndexOf(text, <<"<">> \o tag \o <<">">>)
      close == IndexOf(text, <<"<", "/">> \o tag \o <<">">>)
  IN  open # 0 /\ open < close

HasEnvelope(text) ==
  /\ Section(text, <<"a", "n", "a", "l", "y", "s", "i", "s">>)
  /\ Section(text, <<"p", "o", "l", "i", "s", "h", "e", "d", "_", "b", "l", "o", "g",
                     "_", "p", "o", "s", "t">>)

C20_Envelope ==
  \A r \in Slots :
    (reqs[r].route = "polish" /\ Done(r) /\ Resp(r).status = 200)
      => HasEnvelope(Resp(r).body.content)

\* C20 amended: whatever text the provider returns, the polish route
\* answers with success and with that text, unchanged, as content; the
\* content holds the two sections exactly when the provider's text does.
C20_Verbatim ==
  \A r \in Slots :
    (reqs[r].route = "polish" /\ Done(r) /\ reqs[r].outcome = "ok")
      => /\ Resp(r).status = 200
         /\ Resp(r).body = [content |-> reqs[r].reply]
         /\ HasEnvelope(Resp(r).body.content) <=> HasEnvelope(reqs[r].reply)

\* the polish route has returned a reply that has the two sections
C20_Witness ==
  \E r \in Slots :
    /\ reqs[r].route = "polish" /\ Done(r) /\ Resp(r).status = 200
    /\ reqs[r].reply = TxtEnvelope
    /\ HasEnvelope(Resp(r).body.content)

\* ------------------------------------------------------------------------
\* C21: when neither GOOGLE_API_KEY nor GEMINI_API_KEY is set, the process
\* exits with code 1 and never listens: it leaves the start only by exiting,
\* no slot is ever in use, no request is ever taken or answered, and the
\* exit does happen.
\* ------------------------------------------------------------------------
KeyAbsent ==
  process.GOOGLE_API_KEY = Undefined /\ process.GEMINI_API_KEY = Undefined

NothingHandled ==
  active = {} /\ \A r \in Slots : reqs[r] = IdleReq

C21_Fatal ==
  KeyAbsent =>
    /\ process.pc \in {"boot", "exited"}
    /\ process.pc = "exited" => process.code = 1
    /\ NothingHandled

C21_ExitStep ==
  KeyAbsent /\ process.pc = "boot" => process'.pc = "exited" /\ process'.code = 1

C21_StartupFatal ==
  /\ [][C21_ExitStep]_vars
  /\ []C21_Fatal
  /\ (KeyAbsent ~> process.pc = "exited")

\* the process has exited with code 1 for want of both keys
C21_Witness ==
  KeyAbsent /\ process.pc = "exited" /\ process.code = 1 /\ NothingHandled

\* ------------------------------------------------------------------------
\* C22: nothing is deduplicated.  Every step in which POST /api/posts
\* answers 200 adds one row under an id no row had, whatever rows of the
\* same content are stored already, and every step in which
\* create-checkout-session answers 200 adds one checkout session, whatever
\* sessions exist; no step takes a row or a session away.  So n successes
\* leave n rows, n sessions, one after another or two at a time.
\* ------------------------------------------------------------------------
Answers200(r, route) ==
  /\ reqs[r].route = route /\ reqs[r].pc # "done"
  /\ reqs'[r].pc = "done" /\ Resp(r)'.status = 200

C22_Step ==
  /\ Len(posts') >= Len(posts) /\ SubSeq(posts', 1, Len(posts)) = posts
  /\ Len(stripe'.sessions) >= Len(stripe.sessions)
  /\ SubSeq(stripe'.sessions, 1, Len(stripe.sessions)) = stripe.sessions
  /\ \A r \in Slots :
       /\ Answers200(r, "posts.create") =>
            /\ Len(posts') = Len(posts) + 1
            /\ posts'[Len(posts')].id \notin Ids(posts)
            /\ Resp(r)'.body = posts'[Len(posts')]
       /\ Answers200(r, "checkout") =>
            /\ Len(stripe'.sessions) = Len(stripe.sessions) + 1
            /\ Resp(r)'.body.url = Len(stripe'.sessions)
  /\ posts' # posts => \E r \in Slots : Answers200(r, "posts.create")
  /\ stripe'.sessions # stripe.sessions => \E r \in Slots : Answers200(r, "checkout")

C22_DistinctIds ==
  \A i, j \in 1..Len(posts) : i # j => posts[i].id # posts[j].id

C22_NoDeduplication == []C22_DistinctIds /\ [][C22_Step]_vars

\* two requests of the same body have both been answered 200 for checkout,
\* two sessions exist for one customer, and two rows of the same submitted
\* content are stored
C22_Witness ==
  /\ \A r \in Slots : reqs[r].route = "checkout" /\ Done(r) /\ Resp(r).status = 200
  /\ reqs["r1"].body = reqs["r2"].body
  /\ Resp("r1").body.url # Resp("r2").body.url
  /\ Len(stripe.sessions) = 2 /\ stripe.sessions[1] = stripe.sessions[2]
  /\ Len(posts) = 2
  /\ \A c \in DOMAIN posts[1] \ {"id"} : posts[1][c] = posts[2][c]

\* ------------------------------------------------------------------------
\* C23: when email-campaign answers 200 for a stored post, the body carries
\* generated_at set to the server's clock at the stamping, and the row's
\* email_drip_campaigns column equals the body.
\* ------------------------------------------------------------------------
EmailSucceeded(r) ==
  /\ reqs[r].route = "posts.email" /\ Done(r) /\ Resp(r).status = 200
  /\ RowExists(posts, reqs[r].id)

C23_StampedAndStored ==
  \A r \in Slots :
    EmailSucceeded(r) =>
      /\ JsProp(Resp(r).body, K_generated_at) = Iso(reqs[r].stamp)
      /\ posts[reqs[r].id].email_drip_campaigns = Resp(r).body

\* What the handler does: the row holds the body returned, which is the
\* parsed reply; a reply that is a JSON object carries the server's stamp in
\* place of its own, a reply that is a JSON array carries none.
C23_StoredAsReturned ==
  \A r \in Slots :
    EmailSucceeded(r) =>
      LET p == JSONParse(StripFences(reqs[r].reply))
      IN  /\ posts[reqs[r].id].email_drip_campaigns = Resp(r).body
          /\ p.ok /\ p.val.t \in {"obj", "arr"}
          /\ p.val.t = "obj" =>
               /\ JsProp(Resp(r).body, K_generated_at) = Iso(reqs[r].stamp)
               /\ \A n \in 1..Len(p.val.v) :
                    p.val.v[n].k # K_generated_at =>
                      JsProp(Resp(r).body, p.val.v[n].k) = p.val.v[n].v
          /\ p.val.t = "arr" => Resp(r).body = p.val

\* ------------------------------------------------------------------------
\* C24: a webhook request whose signature fails verification is answered
\* once, with status 400 and a plain-text body; it makes no call to the
\* payment provider and none to the datastore, and no step of it changes
\* the users or the payment provider's records.
\* ------------------------------------------------------------------------
Unsigned(q) == q.route = "webhook" /\ ~q.body.signed

C24_Rejected ==
  \A r \in Slots :
    Unsigned(reqs[r]) =>
      /\ Done(r) /\ Len(reqs[r].resps) = 1
      /\ Resp(r).status = 400 /\ Resp(r).type = "text"
      /\ reqs[r].pay = "none" /\ reqs[r].db = "none"

C24_Step ==
  \A r \in Slots :
    Unsigned(reqs[r]) \/ Unsigned(reqs'[r]) => users' = users /\ stripe' = stripe

C24_SignatureFailure == []C24_Rejected /\ [][C24_Step]_vars

\* a subscription event for a customer that names a user has come with a
\* bad signature and has been answered
C24_Witness ==
  /\ Unsigned(reqs["r1"]) /\ Done("r1")
  /\ reqs["r1"].body.type \in SubscriptionEvents
  /\ ~Falsy(MetadataUserId(stripe.customers, reqs["r1"].body.customer))
  /\ Resp("r1").status = 400 /\ Resp("r1").type = "text"

\* ------------------------------------------------------------------------
\* C25: in the social route a reply that is a social JSON object inside a
\* Markdown fence, with or without the json tag, is parsed to the value of
\* the bare object, and the request goes on to the datastore as it does for
\* the bare reply: it is not answered at the parsing.
\* ------------------------------------------------------------------------
FencedSocial == {WrapJson(TxtSocial), WrapPlain(TxtSocial)}

C25_SocialFenceTransparent ==
  \A r \in Slots :
    /\ reqs[r].route = "posts.social" /\ reqs[r].outcome = "ok"
    /\ reqs[r].reply \in FencedSocial
    => /\ reqs[r].parsed = JSONParse(TxtSocial).val
       /\ Done(r) => reqs[r].at # "provider"

\* ------------------------------------------------------------------------
\* C26: a social or email-campaign request that is answered with an error
\* status has changed no stored row.  A step of such a request changes the
\* table only at the update, which is issued after the reply has parsed and
\* which is the request's last datastore call, and that step answers 200.
\* ------------------------------------------------------------------------
ArtifactRequest(q) == q.route \in {"posts.social", "posts.email"}

C26_Step ==
  \A r \in Slots :
    ArtifactRequest(reqs[r]) /\ reqs'[r] # reqs[r] /\ posts' # posts =>
      /\ reqs[r].pc = "update" /\ reqs[r].outcome = "ok"
      /\ reqs'[r].pc = "done" /\ Resp(r)'.status = 200

C26_Errored ==
  \A r \in Slots :
    ArtifactRequest(reqs[r]) /\ Done(r) /\ Resp(r).status >= 400 =>
      /\ Len(reqs[r].resps) = 1
      /\ reqs[r].at = "update" => reqs[r].db = "error"

C26_ErrorLeavesRows == []C26_Errored /\ [][C26_Step]_vars

\* one request has written the row and the other, on the same row, has been
\* answered 500 at its update: the row holds what the first one wrote
C26_Witness ==
  /\ Succeeded("r1", "posts.social") /\ reqs["r1"].id = 1
  /\ reqs["r2"].route = "posts.social" /\ reqs["r2"].id = 1 /\ Done("r2")
  /\ Resp("r2").status = 500 /\ reqs["r2"].at = "update"
  /\ reqs["r2"].parsed # reqs["r1"].parsed
  /\ posts[1].instagram_post_content = JsProp(JsProp(reqs["r1"].parsed, K_Instagram), K_content)

\* ------------------------------------------------------------------------
\* C27: every request is answered exactly once.  No request ever holds more
\* than one response, a request is finished exactly when it holds one, a
\* finished request gets nothing more, and every request taken is answered
\* (the awaited calls settle).
\* ------------------------------------------------------------------------
Taken(r) == reqs[r].pc \notin {"idle", "done"}

C27_AtMostOnce ==
  \A r \in Slots :
    /\ Len(reqs[r].resps) <= 1
    /\ Done(r) <=> Len(reqs[r].resps) = 1

C27_Step ==
  \A r \in Slots :
    /\ Done(r) => reqs'[r] \in {reqs[r], IdleReq}
    /\ Taken(r) /\ Len(reqs'[r].resps) > 0 => reqs'[r].pc = "done"

C27_ExactlyOneResponse ==
  /\ []C27_AtMostOnce
  /\ [][C27_Step]_vars
  /\ \A r \in {"r1"} : Taken(r) ~> Done(r)

\* the social route has answered a reply that did not parse, through its
\* inner and outer catch, once
C27_Witness ==
  /\ reqs["r1"].route = "posts.social" /\ Done("r1")
  /\ reqs["r1"].outcome = "ok" /\ ~JSONParse(Trim(reqs["r1"].reply)).ok
  /\ Len(reqs["r1"].resps) = 1 /\ Resp("r1").status = 500

\* ------------------------------------------------------------------------
\* C28: with checkout requests handled one after another, a customer is
\* created for a user only while the user holds no customer id, and as long
\* as no datastore call has failed the user has at most one customer, the
\* user holds its id once it is stored, and every checkout session is for
\* the customer the user holds.
\* ------------------------------------------------------------------------
CustomersOf(u) == {c \in 1..Len(stripe.customers) : stripe.customers[c] = u}

DbFailed == \E r \in Slots : reqs[r].db = "error"

C28_Step ==
  Len(stripe'.customers) > Len(stripe.customers) =>
    /\ Len(stripe'.customers) = Len(stripe.customers) + 1
    /\ LET u == stripe'.customers[Len(stripe'.customers)]
       IN  u \in KnownUsers /\ users[u].stripe_customer_id = NoCustomer

C28_OneCustomer ==
  /\ \A u \in KnownUsers :
       /\ Cardinality(CustomersOf(u)) <= 1
       /\ users[u].stripe_customer_id # NoCustomer =>
            users[u].stripe_customer_id \in CustomersOf(u)
       /\ CustomersOf(u) # {} =>
            \/ users[u].stripe_customer_id \in CustomersOf(u)
            \/ \E r \in Slots : /\ reqs[r].route = "checkout" /\ reqs[r].pc = "store"
                                /\ reqs[r].stamp \in CustomersOf(u)
  /\ \A n \in 1..Len(stripe.sessions) :
       /\ stripe.sessions[n] \in 1..Len(stripe.customers)
       /\ users[stripe.customers[stripe.sessions[n]]].stripe_customer_id = stripe.sessions[n]

C28_SingleCustomer ==
  /\ [][C28_Step]_vars
  /\ (<>DbFailed) \/ []C28_OneCustomer

\* two sessions have been created for the one customer of the user, the
\* second by a request that found the id stored
C28_Witness ==
  /\ ~DbFailed
  /\ Len(stripe.customers) = 1 /\ users["u1"].stripe_customer_id = 1
  /\ Len(stripe.sessions) = 2 /\ stripe.sessions = <<1, 1>>
  /\ reqs["r1"].route = "checkout" /\ Done("r1") /\ Resp("r1").status = 200
  /\ reqs["r1"].pay = "ok"

\* ------------------------------------------------------------------------
\* C29: a checkout session is created only by a request that carries
\* priceId and userId, whose user lookup gave a user with no error, and
\* which, if it created the customer itself, has stored the customer's id.
\* A request lacking a field is answered 400 with no datastore or payment
\* call; a failed store of the new customer's id is answered 500 and the
\* request creates no session.
\* ------------------------------------------------------------------------
FieldMissing(q) == Falsy(q.body.priceId) \/ Falsy(q.body.userId)

C29_Step ==
  \A r \in Slots :
    reqs[r].route = "checkout" /\ reqs'[r] # reqs[r] =>
      /\ stripe'.sessions # stripe.sessions =>
           /\ ~FieldMissing(reqs[r])
           /\ reqs[r].body.userId \in DOMAIN users
           /\ reqs[r].db = "ok"
           /\ users[reqs[r].body.userId].stripe_customer_id = reqs[r].stamp
           /\ stripe'.sessions = Append(stripe.sessions, reqs[r].stamp)
      /\ reqs[r].pc = "store" /\ reqs'[r].db = "error" =>
           /\ stripe' = stripe /\ users' = users
           /\ reqs'[r].pc = "done" /\ Resp(r)'.status = 500

C29_Refused ==
  \A r \in Slots :
    reqs[r].route = "checkout" =>
      /\ FieldMissing(reqs[r]) =>
           /\ Done(r) /\ Resp(r).status = 400
           /\ reqs[r].db = "none" /\ reqs[r].pay = "none"
      /\ reqs[r].pc = "session" /\ reqs[r].pay = "ok" =>
           users[reqs[r].body.userId].stripe_customer_id = reqs[r].stamp
      /\ Done(r) /\ reqs[r].at \in {"user", "customer", "store"} =>
           Resp(r).status >= 400

C29_SessionGuarded == []C29_Refused /\ [][C29_Step]_vars

\* the customer was created, the store of its id failed, the request was
\* answered 500 and there is no session
C29_Witness ==
  /\ reqs["r1"].route = "checkout" /\ Done("r1") /\ reqs["r1"].at = "store"
  /\ reqs["r1"].db = "error" /\ Resp("r1").status = 500
  /\ Len(stripe.customers) = 1 /\ stripe.sessions = <<>>
  /\ users["u1"].stripe_customer_id = NoCustomer

\* ------------------------------------------------------------------------
\* C30: a webhook event whose signature verifies.  A deleted event for a
\* customer that names a user leaves the user inactive with no subscription
\* id and no period end; a created or updated event leaves the user with the
\* status, the subscription id and the period end of the event; an event for
\* a customer without userId is answered 400 and no update is called; any
\* other event type is answered with no call at all; received is answered
\* only if no update failed; and the users change on no other step.
\* ------------------------------------------------------------------------
Signed(q) == q.route = "webhook" /\ q.body.signed

Named(q) == MetadataUserId(stripe.customers, q.body.customer)

Received(r) ==
  Done(r) /\ Resp(r).status = 200 /\ Resp(r).body = [received |-> TRUE]

SubscriptionOf(u) ==
  [subscription_id |-> users[u].subscription_id,
   status |-> users[u].subscription_status,
   period_end |-> users[u].period_end]

C30_Handled ==
  \A r \in Slots :
    Signed(reqs[r]) /\ Done(r) =>
      LET q == reqs[r]
      IN  /\ q.body.type \notin SubscriptionEvents =>
               Received(r) /\ q.pay = "none" /\ q.db = "none"
          /\ q.body.type \in SubscriptionEvents /\ q.pay = "ok" /\ Falsy(Named(q)) =>
               Resp(r).status = 400 /\ q.db = "none"
          /\ q.db = "error" \/ q.pay = "throw" => Resp(r).status = 500
          /\ Received(r) /\ q.body.type \in SubscriptionEvents =>
               /\ q.pay = "ok" /\ q.db = "ok" /\ ~Falsy(Named(q))
               /\ Named(q) \in KnownUsers =>
                    /\ q.body.type = "customer.subscription.deleted" =>
                         SubscriptionOf(Named(q)) =
                           [subscription_id |-> "null", status |-> "inactive",
                            period_end |-> "null"]
                    /\ q.body.type # "customer.subscription.deleted" =>
                         SubscriptionOf(Named(q)) =
                           [subscription_id |-> q.body.subscription,
                            status |-> q.body.status,
                            period_end |-> IsoSeconds(q.body.current_period_end)]

C30_Step ==
  \A r \in Slots :
    reqs[r].route = "webhook" /\ reqs'[r] # reqs[r] =>
      /\ stripe' = stripe
      /\ users' # users =>
           /\ Signed(reqs[r]) /\ reqs[r].pc = "subscription"
           /\ reqs[r].body.type \in SubscriptionEvents
           /\ Received(r)'
           /\ \A u \in KnownUsers \ {Named(reqs[r])} : users'[u] = users[u]
           /\ \A u \in KnownUsers :
                users'[u].stripe_customer_id = users[u].stripe_customer_id

C30_VerifiedEvent == []C30_Handled /\ [][C30_Step]_vars

\* a deleted event for the customer of user u1 has been received and the
\* user is inactive
C30_Witness ==
  /\ Signed(reqs["r1"]) /\ Received("r1")
  /\ reqs["r1"].body.type = "customer.subscription.deleted"
  /\ Named(reqs["r1"]) = "u1"
  /\ users["u1"].subscription_status = "inactive"
  /\ users["u1"].stripe_customer_id # NoCustomer

====
